---- MODULE Spec2Model ----
(***************************************************************************)
(* Model of the production scheduler: src/src/core/scheduler.ts (the       *)
(* serial schedule generation loop) and the interval helpers of            *)
(* src/util/timeUtils.ts (src/unnamed/part_001).                           *)
(*                                                                         *)
(* One behaviour of Spec is one call of schedule(input): Init is the state *)
(* after normalizeInput / buildOperationsList and the set-up of lines      *)
(* 342-375, Iterate is one pass through the body of the while loop         *)
(* (lines 377-495) and Finish is the code after the loop (lines 497-525).  *)
(* Timestamps are integers in milliseconds, offsets are minutes.           *)
(*                                                                         *)
(* TimeUtilsSpec is one call of a timeUtils function on its own, RerunSpec *)
(* is two calls of schedule() in sequence on the same input, HttpSpec is   *)
(* one POST /schedule request (src/src/api/routes.ts) around the call of   *)
(* schedule(), and MatrixSpec is one call of schedule() on inputs whose    *)
(* changeover matrix holds same-family keys.  FinalCheckSpec is the code   *)
(* after the loop applied to any complete set of assignments,              *)
(* CalendarSpec is one request whose resource calendars hold windows in    *)
(* any order and partly or wholly outside the horizon, ConcurrentSpec is   *)
(* two calls of schedule() on the same input whose passes interleave, and  *)
(* LongSpec is one call on inputs with operations longer than the horizon. *)
(***************************************************************************)
EXTENDS Integers, Sequences, FiniteSets, TLC

VARIABLES
    horizon,         \* input.horizon, the timestamps of the request
    normalized,      \* result of normalizeInput(input)
    unscheduled,     \* the pool: operations not yet placed, in pool order
    assignments,     \* Map productId -> list of that product's assignments
    allAssignments,  \* every assignment, in placement order
    resourceStates,  \* Map resourceId -> [lastFamily, assignments]
    iteration,       \* loop counter
    result,          \* Running, or the ScheduleResult returned
    request,         \* the body of the POST /schedule request, None without one
    reply,           \* None, or the HTTP reply [status, body]
    previous,        \* None, or the result of an earlier call on the same input
    call             \* None, or a call of a timeUtils function and its result

vars == <<horizon, normalized, unscheduled, assignments, allAssignments,
          resourceStates, iteration, result, request, reply, previous, call>>

(* the variables outside one call of schedule() *)
outer == <<request, reply, previous, call>>

----------------------------------------------------------------------------
(* Bounds of the model *)

MaxTime == 3         \* horizon length, minutes
MaxDur == 2          \* longest operation, minutes
MaxChangeover == 1   \* largest changeover matrix entry, minutes

(* Program constants *)

MsPerMinute == 60000
DefaultTimeLimit == 30
IterationFactor == 5

Capabilities == {"fill", "label"}
Families == {"A", "B"}

----------------------------------------------------------------------------
(* Optional values: None is null / undefined, Some(x) is a value *)

None == <<>>
Some(x) == <<x>>

Max(a, b) == IF a >= b THEN a ELSE b
Min(a, b) == IF a <= b THEN a ELSE b

SetMin(S) == CHOOSE x \in S : \A y \in S : x <= y
SetMax(S) == CHOOSE x \in S : \A y \in S : x >= y

Range(s) == {s[i] : i \in 1..Len(s)}

RECURSIVE SumSeq(_)
SumSeq(s) == IF s = <<>> THEN 0 ELSE Head(s) + SumSeq(Tail(s))

(* Map.get(key) || [] *)
GetOrEmpty(map, key) == IF key \in DOMAIN map THEN map[key] ELSE <<>>

----------------------------------------------------------------------------
(* timeUtils *)

parseIsoOffset(isoString, horizonStart) ==
    (isoString - horizonStart) \div MsPerMinute

formatIsoOffset(minutes, horizonStart) ==
    horizonStart + minutes * MsPerMinute

(* Array.prototype.sort((a, b) => a.start - b.start): a stable sort *)
RECURSIVE InsertByStart(_, _)
InsertByStart(s, x) ==
    IF s = <<>> THEN <<x>>
    ELSE IF x.start < Head(s).start THEN <<x>> \o s
    ELSE <<Head(s)>> \o InsertByStart(Tail(s), x)

RECURSIVE SortByStart(_)
SortByStart(s) ==
    IF s = <<>> THEN <<>>
    ELSE InsertByStart(SortByStart(SubSeq(s, 1, Len(s) - 1)), s[Len(s)])

parseCalendarWindows(calendar, horizonStart) ==
    SortByStart([i \in 1..Len(calendar) |->
        [start |-> parseIsoOffset(calendar[i][1], horizonStart),
         end   |-> parseIsoOffset(calendar[i][2], horizonStart)]])

(* CombineFold that merges overlapping intervals only, not adjacent ones *)
RECURSIVE CombineFoldOverlapOnly(_, _)
CombineFoldOverlapOnly(combined, rest) ==
    IF rest = <<>> THEN combined
    ELSE LET current == Head(rest)
             last == combined[Len(combined)]
         IN IF current.start < last.end
            THEN CombineFoldOverlapOnly(
                   [combined EXCEPT ![Len(combined)] =
                       [start |-> last.start,
                        end   |-> Max(last.end, current.end)]],
                   Tail(rest))
            ELSE CombineFoldOverlapOnly(Append(combined, current), Tail(rest))

RECURSIVE CombineFold(_, _)
CombineFold(combined, rest) ==
    IF rest = <<>> THEN combined
    ELSE LET current == Head(rest)
             last == combined[Len(combined)]
         IN IF current.start <= last.end
            THEN CombineFold(
                   [combined EXCEPT ![Len(combined)] =
                       [start |-> last.start,
                        end   |-> Max(last.end, current.end)]],
                   Tail(rest))
            ELSE CombineFold(Append(combined, current), Tail(rest))

combineOverlappingIntervals(intervals) ==
    IF intervals = <<>> THEN <<>>
    ELSE LET sorted == SortByStart(intervals)
         IN CombineFold(<<Head(sorted)>>, Tail(sorted))

doIntervalsOverlap(a, b) == a.start < b.end /\ b.start < a.end

isWithinCalendarWindow(start, end, calendar) ==
    \E i \in 1..Len(calendar) :
        start >= calendar[i].start /\ end <= calendar[i].end

(* findEarliestAvailableSlot, lines 119-132: the loop over the merged
   occupied intervals of one window; slot is the offset returned from inside
   the loop, currentTime the value the loop is left with *)
RECURSIVE ScanOccupied(_, _, _, _)
ScanOccupied(merged, window, duration, currentTime) ==
    IF merged = <<>> THEN [slot |-> None, currentTime |-> currentTime]
    ELSE LET occ == Head(merged)
         IN IF occ.end <= currentTime
            THEN ScanOccupied(Tail(merged), window, duration, currentTime)
            ELSE IF /\ currentTime + duration <= occ.start
                    /\ currentTime + duration <= window.end
            THEN [slot |-> Some(currentTime), currentTime |-> currentTime]
            ELSE IF Max(currentTime, occ.end) >= window.end
            THEN [slot |-> None, currentTime |-> Max(currentTime, occ.end)]
            ELSE ScanOccupied(Tail(merged), window, duration,
                              Max(currentTime, occ.end))

(* findEarliestAvailableSlot, lines 116-137: the loop over the windows *)
RECURSIVE ScanWindows(_, _, _, _)
ScanWindows(calendar, merged, duration, earliestStart) ==
    IF calendar = <<>> THEN None
    ELSE LET window == Head(calendar)
             scan == ScanOccupied(merged, window, duration,
                                  Max(window.start, earliestStart))
         IN IF window.end <= earliestStart
            THEN ScanWindows(Tail(calendar), merged, duration, earliestStart)
            ELSE IF scan.slot # None THEN scan.slot
            ELSE IF scan.currentTime + duration <= window.end
            THEN Some(scan.currentTime)
            ELSE ScanWindows(Tail(calendar), merged, duration, earliestStart)

(* findEarliestAvailableSlot that leaves the occupied intervals out *)
findEarliestFreeOfNothing(calendar, occupied, duration, earliestStart) ==
    ScanWindows(calendar, <<>>, duration, earliestStart)

findEarliestAvailableSlot(calendar, occupied, duration, earliestStart) ==
    ScanWindows(calendar, combineOverlappingIntervals(occupied), duration,
                earliestStart)

----------------------------------------------------------------------------
(* normalizeInput *)

(* ClipWindow that clips the start only *)
ClipWindowStartOnly(w, horizonEnd) ==
    [start |-> Max(0, w.start), end |-> w.end]

ClipWindow(w, horizonEnd) ==
    [start |-> Max(0, w.start), end |-> Min(horizonEnd, w.end)]

(* NormalizeCalendar that keeps the windows clipping has emptied *)
NormalizeCalendarKeepingEmpty(calendar, horizonStart, horizonEnd) ==
    LET raw == parseCalendarWindows(calendar, horizonStart)
        merged == combineOverlappingIntervals(raw)
    IN [i \in 1..Len(merged) |-> ClipWindow(merged[i], horizonEnd)]

NormalizeCalendar(calendar, horizonStart, horizonEnd) ==
    LET raw == parseCalendarWindows(calendar, horizonStart)
        merged == combineOverlappingIntervals(raw)
        clipped == [i \in 1..Len(merged) |-> ClipWindow(merged[i], horizonEnd)]
    IN SelectSeq(clipped, LAMBDA w : w.end > w.start)

(* HorizonEnd with the horizon's last minute counted twice *)
HorizonEndInclusive(input) ==
    parseIsoOffset(input.horizon.end, input.horizon.start) + 1

HorizonEnd(input) == parseIsoOffset(input.horizon.end, input.horizon.start)

normalizeInput(input) ==
    LET horizonStart == input.horizon.start
        horizonEnd == HorizonEnd(input)
    IN [horizonStart |-> horizonStart,
        horizonEnd   |-> horizonEnd,
        resources    |-> [i \in 1..Len(input.resources) |->
            [id           |-> input.resources[i].id,
             capabilities |-> Range(input.resources[i].capabilities),
             calendar     |-> NormalizeCalendar(input.resources[i].calendar,
                                                horizonStart, horizonEnd)]],
        products     |-> [i \in 1..Len(input.products) |->
            [id     |-> input.products[i].id,
             family |-> input.products[i].family,
             due    |-> parseIsoOffset(input.products[i].due, horizonStart),
             route  |-> input.products[i].route]],
        changeoverMatrix |-> input.changeover_matrix_minutes.values]

ResourceIds == {normalized.resources[i].id : i \in 1..Len(normalized.resources)}

(* resources.get(id): the Map keeps the last entry set for a key *)
ResourceById(id) ==
    normalized.resources[SetMax({i \in 1..Len(normalized.resources) :
                                    normalized.resources[i].id = id})]

(* productsMap.get(id) *)
productsMap(id) ==
    normalized.products[SetMax({i \in 1..Len(normalized.products) :
                                   normalized.products[i].id = id})]

----------------------------------------------------------------------------
(* buildOperationsList *)

ProductOperations(product) ==
    [k \in 1..Len(product.route) |->
        [productId     |-> product.id,
         productFamily |-> product.family,
         stepIndex     |-> k - 1,
         capability    |-> product.route[k].capability,
         duration      |-> product.route[k].duration_minutes,
         productDue    |-> product.due,
         earliestStart |-> 0]]

RECURSIVE buildOperationsList(_)
buildOperationsList(prods) ==
    IF prods = <<>> THEN <<>>
    ELSE ProductOperations(Head(prods)) \o buildOperationsList(Tail(prods))

(* maxIterations as a budget that the first call uses up *)
maxIterationsLeftByEarlierCall ==
    IF previous = None
    THEN Len(buildOperationsList(normalized.products)) * IterationFactor
    ELSE 0

(* maxIterations of half the pool's size *)
maxIterationsHalfThePool ==
    Len(buildOperationsList(normalized.products)) \div 2

maxIterations == Len(buildOperationsList(normalized.products)) * IterationFactor

----------------------------------------------------------------------------
(* selectNextOperation *)

(* FindStep that finds nothing *)
FindStepNothing(productAssignments, step) == None

(* productAssignments.find((a) => a.stepIndex === step) *)
FindStep(productAssignments, step) ==
    LET hits == {i \in 1..Len(productAssignments) :
                    productAssignments[i].stepIndex = step}
    IN IF hits = {} THEN None ELSE Some(productAssignments[SetMin(hits)])

(* IsReady that asks for a prior step's assignment of every operation *)
IsReadyAfterPriorOnly(op, assigned) ==
    FindStep(GetOrEmpty(assigned, op.productId), op.stepIndex - 1) # None

IsReady(op, assigned) ==
    \/ op.stepIndex = 0
    \/ FindStep(GetOrEmpty(assigned, op.productId), op.stepIndex - 1) # None

(* route.slice(stepIndex).reduce((sum, op) => sum + op.duration_minutes, 0) *)
RemainingWork(op) ==
    LET route == productsMap(op.productId).route
    IN SumSeq([k \in 1..(Len(route) - op.stepIndex) |->
                  route[op.stepIndex + k].duration_minutes])

Slack(op) == op.productDue - op.earliestStart - RemainingWork(op)

(* ComparePriority without the slack: due time, then duration *)
ComparePriorityNoSlack(a, b) ==
    IF a.productDue # b.productDue THEN a.productDue - b.productDue
    ELSE a.duration - b.duration

(* the comparator of ready.sort: negative when a goes before b *)
ComparePriority(a, b) ==
    IF a.productDue # b.productDue THEN a.productDue - b.productDue
    ELSE IF Slack(a) # Slack(b) THEN Slack(a) - Slack(b)
    ELSE a.duration - b.duration

RECURSIVE InsertByPriority(_, _)
InsertByPriority(s, x) ==
    IF s = <<>> THEN <<x>>
    ELSE IF ComparePriority(x, Head(s)) < 0 THEN <<x>> \o s
    ELSE <<Head(s)>> \o InsertByPriority(Tail(s), x)

RECURSIVE SortByPriority(_)
SortByPriority(s) ==
    IF s = <<>> THEN <<>>
    ELSE InsertByPriority(SortByPriority(SubSeq(s, 1, Len(s) - 1)), s[Len(s)])

ReadyOperations(pool, assigned) ==
    SelectSeq(pool, LAMBDA op : IsReady(op, assigned))

selectNextOperation(pool, assigned) ==
    LET ready == ReadyOperations(pool, assigned)
    IN IF Len(ready) = 0 THEN None ELSE Some(SortByPriority(ready)[1])

----------------------------------------------------------------------------
(* getEligibleResources, getChangeoverTime *)

(* getEligibleResources without the capability test *)
getEveryResource(operation, resourceList) == resourceList

getEligibleResources(operation, resourceList) ==
    SelectSeq(resourceList, LAMBDA r : operation.capability \in r.capabilities)

(* matrix[`${lastFamily}->${nextFamily}`] ?? 0; the key is the pair *)
getChangeoverTime(lastFamily, nextFamily, matrix) ==
    IF lastFamily = None THEN 0
    ELSE IF <<lastFamily[1], nextFamily>> \in DOMAIN matrix
         THEN matrix[<<lastFamily[1], nextFamily>>]
         ELSE 0

----------------------------------------------------------------------------
(* tryPlaceOperation *)

(* GapStart that forgets the operation's earliest start *)
GapStartIgnoringEarliest(operation, prevAssignment, window) ==
    IF prevAssignment # None THEN prevAssignment[1].end ELSE window.start

GapStart(operation, prevAssignment, window) ==
    Max(operation.earliestStart,
        IF prevAssignment # None THEN prevAssignment[1].end ELSE window.start)

(* GapEnd that forgets the assignment after the gap *)
GapEndIgnoringNext(window, nextAssignment) == window.end

GapEnd(window, nextAssignment) ==
    Min(window.end,
        IF nextAssignment # None THEN nextAssignment[1].start ELSE window.end)

(* One pass through the body of the innermost loop, i = 0..sorted.length *)
GapProbe(operation, rid, sorted, window, i, matrix) ==
    LET prevAssignment == IF i >= 1 THEN Some(sorted[i]) ELSE None
        nextAssignment == IF i + 1 <= Len(sorted) THEN Some(sorted[i + 1]) ELSE None
        gapStart == GapStart(operation, prevAssignment, window)
        gapEnd == GapEnd(window, nextAssignment)
        prevFamily == IF prevAssignment # None
                      THEN Some(prevAssignment[1].productFamily) ELSE None
        changeoverTime == getChangeoverTime(prevFamily, operation.productFamily, matrix)
        start == gapStart + changeoverTime
    IN [resource |-> rid, window |-> window, i |-> i,
        gapStart |-> gapStart, gapEnd |-> gapEnd,
        changeoverTime |-> changeoverTime,
        start |-> start, end |-> start + operation.duration]

WindowProbes(operation, rid, sorted, window, matrix) ==
    [k \in 1..(Len(sorted) + 1) |->
        GapProbe(operation, rid, sorted, window, k - 1, matrix)]

RECURSIVE CalendarProbes(_, _, _, _, _)
CalendarProbes(operation, rid, sorted, calendar, matrix) ==
    IF calendar = <<>> THEN <<>>
    ELSE (IF Head(calendar).end <= operation.earliestStart THEN <<>>
          ELSE WindowProbes(operation, rid, sorted, Head(calendar), matrix))
         \o CalendarProbes(operation, rid, sorted, Tail(calendar), matrix)

(* every gap examined, in the order the three nested loops examine them *)
RECURSIVE AllProbes(_, _, _, _)
AllProbes(operation, eligibleResources, states, matrix) ==
    IF eligibleResources = <<>> THEN <<>>
    ELSE LET resource == Head(eligibleResources)
         IN CalendarProbes(operation, resource.id,
                           states[resource.id].assignments,
                           resource.calendar, matrix)
            \o AllProbes(operation, Tail(eligibleResources), states, matrix)

ProjectedTardiness(end, operation) == Max(0, end - operation.productDue)

(* IsBetter that lets a later candidate of the same end replace the best *)
IsBetterOrAsGood(operation, g, bestPlacement) ==
    \/ bestPlacement = None
    \/ ProjectedTardiness(g.end, operation)
         <= ProjectedTardiness(bestPlacement[1].end, operation)

(* IsBetter that keeps the first accepted candidate *)
IsBetterFirstOnly(operation, g, bestPlacement) == bestPlacement = None

(* lines 193-196; bestProjectedTardiness and earliestEnd start at Infinity,
   so the first accepted candidate always replaces the null placement *)
IsBetter(operation, g, bestPlacement) ==
    \/ bestPlacement = None
    \/ ProjectedTardiness(g.end, operation)
         < ProjectedTardiness(bestPlacement[1].end, operation)
    \/ /\ ProjectedTardiness(g.end, operation)
            = ProjectedTardiness(bestPlacement[1].end, operation)
       /\ g.end < bestPlacement[1].end

(* Accepts that rejects a candidate ending exactly at the gap's end *)
AcceptsStrict(g) == g.start >= g.gapStart /\ g.end < g.gapEnd

Accepts(g) == g.start >= g.gapStart /\ g.end <= g.gapEnd

(* PlaceStep that records every rejected gap, not only a larger one *)
PlaceStepAnyGap(operation, acc, g) ==
    IF g.gapEnd <= g.gapStart THEN acc
    ELSE IF g.start >= g.gapStart /\ g.end <= g.gapEnd
    THEN IF IsBetter(operation, g, acc.bestPlacement)
         THEN [acc EXCEPT !.bestPlacement =
                  Some([resource |-> g.resource, start |-> g.start, end |-> g.end])]
         ELSE acc
    ELSE LET gap == g.gapEnd - g.gapStart
             needed == g.changeoverTime + operation.duration
         IN [acc EXCEPT !.largestGap = gap,
                        !.bestNear = Some([resource |-> g.resource,
                                           gap |-> gap, needed |-> needed,
                                           changeover |-> g.changeoverTime])]

PlaceStep(operation, acc, g) ==
    IF g.gapEnd <= g.gapStart THEN acc
    ELSE IF Accepts(g)
    THEN IF IsBetter(operation, g, acc.bestPlacement)
         THEN [acc EXCEPT !.bestPlacement =
                  Some([resource |-> g.resource, start |-> g.start, end |-> g.end])]
         ELSE acc
    ELSE LET gap == g.gapEnd - g.gapStart
             needed == g.changeoverTime + operation.duration
         IN IF gap > acc.largestGap
            THEN [acc EXCEPT !.largestGap = gap,
                             !.bestNear = Some([resource |-> g.resource,
                                                gap |-> gap, needed |-> needed,
                                                changeover |-> g.changeoverTime])]
            ELSE acc

RECURSIVE PlaceFold(_, _, _)
PlaceFold(operation, acc, probes) ==
    IF probes = <<>> THEN acc
    ELSE PlaceFold(operation, PlaceStep(operation, acc, Head(probes)), Tail(probes))

tryPlaceOperation(operation, eligibleResources, states, matrix) ==
    LET final == PlaceFold(operation,
                           [bestPlacement |-> None, bestNear |-> None, largestGap |-> 0],
                           AllProbes(operation, eligibleResources, states, matrix))
    IN [placement |-> final.bestPlacement, bestNear |-> final.bestNear]

----------------------------------------------------------------------------
(* updateResourceState *)

(* updateResourceState without the sort *)
updateResourceStateUnsorted(state, assignment) ==
    [lastFamily  |-> Some(assignment.productFamily),
     assignments |-> Append(state.assignments, assignment)]

updateResourceState(state, assignment) ==
    [lastFamily  |-> Some(assignment.productFamily),
     assignments |-> SortByStart(Append(state.assignments, assignment))]

----------------------------------------------------------------------------
(* denormalizeResult *)

(* Completion taken from the product's first assignment in the list *)
CompletionOfFirstAssignment(list, productId) ==
    LET mine == SelectSeq(list, LAMBDA a : a.productId = productId)
    IN IF mine = <<>> THEN 0 ELSE mine[1].end

(* productCompletions.get(product.id) || 0 *)
Completion(list, productId) ==
    LET ends == {list[i].end : i \in {j \in 1..Len(list) : list[j].productId = productId}}
    IN IF ends = {} THEN 0 ELSE Max(0, SetMax(ends))

Tardiness(list, product) == Max(0, Completion(list, product.id) - product.due)

(* resourceMap.get(resourceId) || [] *)
ResourceAssignments(list, rid) == SelectSeq(list, LAMBDA a : a.resource = rid)

(* computeChangeoverMinutesPerResource, for one resource *)
ChangeoverMinutes(list, rid, matrix) ==
    LET sorted == SortByStart(ResourceAssignments(list, rid))
    IN SumSeq([k \in 1..(Len(sorted) - 1) |->
           IF sorted[k].productFamily # sorted[k + 1].productFamily
           THEN getChangeoverTime(Some(sorted[k].productFamily),
                                  sorted[k + 1].productFamily, matrix)
           ELSE 0])

(* ChangeoverCount counting every adjacent pair, whatever the families *)
ChangeoverCountAnyPair(list, rid) ==
    LET sorted == SortByStart(ResourceAssignments(list, rid))
    IN Cardinality(1..(Len(sorted) - 1))

ChangeoverCount(list, rid) ==
    LET sorted == SortByStart(ResourceAssignments(list, rid))
    IN Cardinality({k \in 1..(Len(sorted) - 1) :
                       sorted[k].productFamily # sorted[k + 1].productFamily})

(* Math.round((busyTime / Math.max(availableMinutes, 1)) * 100) *)
RoundPercent(busyTime, availableMinutes) ==
    LET d == Max(availableMinutes, 1)
    IN (200 * busyTime + d) \div (2 * d)

Utilization(list, resource, matrix) ==
    LET availableMinutes ==
            SumSeq([k \in 1..Len(resource.calendar) |->
                       resource.calendar[k].end - resource.calendar[k].start])
        mine == ResourceAssignments(list, resource.id)
        busyTime == SumSeq([k \in 1..Len(mine) |-> mine[k].end - mine[k].start])
                    + ChangeoverMinutes(list, resource.id, matrix)
    IN RoundPercent(busyTime, availableMinutes)

(* Makespan measured from the start of the horizon *)
MakespanFromHorizonStart(list) ==
    IF Len(list) > 0
    THEN Max(0, SetMax({list[i].end : i \in 1..Len(list)}))
    ELSE 0

Makespan(list) ==
    IF Len(list) > 0
    THEN Max(0, SetMax({list[i].end : i \in 1..Len(list)}))
         - SetMin({list[i].start : i \in 1..Len(list)})
    ELSE 0

(* denormalizeResult that lists the assignments in the order of placement *)
denormalizeResultInPlacementOrder(list, horizonStart, prods, resourceList, matrix) ==
    [success |-> TRUE,
     assignments |-> [i \in 1..Len(list) |->
         [product   |-> list[i].productId,
          operation |-> list[i].operationName,
          resource  |-> list[i].resource,
          start     |-> formatIsoOffset(list[i].start, horizonStart),
          end       |-> formatIsoOffset(list[i].end, horizonStart)]],
     kpis |->
         [tardiness_minutes |->
              SumSeq([i \in 1..Len(prods) |-> Tardiness(list, prods[i])]),
          changeovers |->
              SumSeq([i \in 1..Len(resourceList) |->
                         ChangeoverCount(list, resourceList[i].id)]),
          makespan_minutes |-> Makespan(list),
          utilization |->
              [rid \in {resourceList[i].id : i \in 1..Len(resourceList)} |->
                  Utilization(list, ResourceById(rid), matrix)],
          on_time_jobs |->
              Cardinality({i \in 1..Len(prods) : Tardiness(list, prods[i]) = 0}),
          total_jobs |-> Len(prods)]]

denormalizeResult(list, horizonStart, prods, resourceList, matrix) ==
    LET sortedAssignments == SortByStart(list)
    IN [success |-> TRUE,
        assignments |-> [i \in 1..Len(sortedAssignments) |->
            [product   |-> sortedAssignments[i].productId,
             operation |-> sortedAssignments[i].operationName,
             resource  |-> sortedAssignments[i].resource,
             start     |-> formatIsoOffset(sortedAssignments[i].start, horizonStart),
             end       |-> formatIsoOffset(sortedAssignments[i].end, horizonStart)]],
        kpis |->
            [tardiness_minutes |->
                 SumSeq([i \in 1..Len(prods) |-> Tardiness(list, prods[i])]),
             changeovers |->
                 SumSeq([i \in 1..Len(resourceList) |->
                            ChangeoverCount(list, resourceList[i].id)]),
             makespan_minutes |-> Makespan(list),
             utilization |->
                 [rid \in {resourceList[i].id : i \in 1..Len(resourceList)} |->
                     Utilization(list, ResourceById(rid), matrix)],
             on_time_jobs |->
                 Cardinality({i \in 1..Len(prods) : Tardiness(list, prods[i]) = 0}),
             total_jobs |-> Len(prods)]]

(* EmptyResult with a zero utilization for every resource *)
EmptyResultZeroUtilization ==
    [success |-> TRUE,
     assignments |-> <<>>,
     kpis |-> [tardiness_minutes |-> 0, changeovers |-> 0, makespan_minutes |-> 0,
               utilization |-> [rid \in ResourceIds |-> 0],
               on_time_jobs |-> 0, total_jobs |-> 0]]

(* schedule(), lines 346-360: the result for an empty product list *)
EmptyResult ==
    [success |-> TRUE,
     assignments |-> <<>>,
     kpis |-> [tardiness_minutes |-> 0, changeovers |-> 0, makespan_minutes |-> 0,
               utilization |-> <<>>, on_time_jobs |-> 0, total_jobs |-> 0]]

----------------------------------------------------------------------------
(* The inputs of a run: what the request validator lets through, bounded *)

Ts(m) == m * MsPerMinute

RawWindows ==
    {w \in {<<Ts(s), Ts(e)>> : s \in 0..MaxTime, e \in 1..(MaxTime + 1)} :
        w[1] < w[2]}

(* one window, or two windows listed latest first with a break between them *)
RawCalendars ==
    {<<w>> : w \in RawWindows} \cup
    {c \in {<<w1, w2>> : w1 \in RawWindows, w2 \in RawWindows} :
        c[2][2] < c[1][1]}

Durations == {1, MaxDur}
DueTimes == {Ts(1), Ts(MaxTime)}
ChangeoverTimes == {0, MaxChangeover}

RawRouteSteps ==
    [capability : Capabilities, duration_minutes : Durations]

(* one step, or a fill step followed by any step *)
RawRoutes ==
    {<<o>> : o \in RawRouteSteps} \cup
    {<<o1, o2>> : o1 \in {o \in RawRouteSteps : o.capability = "fill"},
                  o2 \in RawRouteSteps}

(* R1 fills only; R2 fills, or fills and labels, and is open to the end of
   the horizon, from its first minute or, beside an R1 of one window, from
   its second *)
RawResourceLists ==
    {<<[id |-> "R1", capabilities |-> <<"fill">>, calendar |-> c1],
       [id |-> "R2", capabilities |-> caps2,
        calendar |-> <<<<Ts(s2), Ts(MaxTime + 1)>>>>]>> :
        c1 \in RawCalendars,
        caps2 \in {<<"fill">>, <<"label", "fill">>},
        s2 \in {0}} \cup
    {<<[id |-> "R1", capabilities |-> <<"fill">>, calendar |-> <<w1>>],
       [id |-> "R2", capabilities |-> caps2,
        calendar |-> <<<<Ts(s2), Ts(MaxTime + 1)>>>>]>> :
        w1 \in {w \in RawWindows : w[1] > Ts(0)},
        caps2 \in {<<"fill">>, <<"label", "fill">>},
        s2 \in {1}}

(* no product, one product, or two products the second of which has one step *)
RawProductLists ==
    {<<>>} \cup
    {<<[id |-> "P1", family |-> "A", due |-> d1, route |-> r1]>> :
        d1 \in DueTimes, r1 \in RawRoutes} \cup
    {<<[id |-> "P1", family |-> "A", due |-> d1, route |-> r1],
       [id |-> "P2", family |-> f2, due |-> d2,
        route |-> <<[capability |-> "fill", duration_minutes |-> n2]>>]>> :
        d1 \in DueTimes, r1 \in RawRoutes, f2 \in Families,
        d2 \in DueTimes, n2 \in Durations}

(* keys "A->B" and "B->A"; same-family keys are absent *)
RawMatrices ==
    {(<<"A", "B">> :> ab) @@ (<<"B", "A">> :> ba) :
        ab \in ChangeoverTimes, ba \in ChangeoverTimes}

(* The matrix is read only for a pair of differing families, so lists of
   products of one family are paired with one matrix. *)
MatricesFor(ps) ==
    IF \E i \in 1..Len(ps) : ps[i].family # "A"
    THEN RawMatrices
    ELSE {(<<"A", "B">> :> MaxChangeover) @@ (<<"B", "A">> :> MaxChangeover)}

MakeInput(rs, ps, m) ==
    [horizon |-> [start |-> Ts(0), end |-> Ts(MaxTime)],
     resources |-> rs,
     changeover_matrix_minutes |-> [values |-> m],
     products |-> ps,
     settings |-> [time_limit_seconds |-> DefaultTimeLimit]]

----------------------------------------------------------------------------
(* schedule() *)

Running == [running |-> TRUE]

(* Failure that also returns the assignments made before the failure *)
FailureWithPartialSchedule(error, why) ==
    [success |-> FALSE, error |-> error, why |-> why,
     assignments |-> allAssignments]

Failure(error, why) == [success |-> FALSE, error |-> error, why |-> why]

(* lines 342-375 *)
Init ==
    /\ \E ps \in RawProductLists :
         \E rs \in RawResourceLists, m \in MatricesFor(ps) :
           /\ horizon = MakeInput(rs, ps, m).horizon
           /\ normalized = normalizeInput(MakeInput(rs, ps, m))
    /\ unscheduled = buildOperationsList(normalized.products)
    /\ assignments = <<>>
    /\ allAssignments = <<>>
    /\ resourceStates =
           [rid \in ResourceIds |-> [lastFamily |-> None, assignments |-> <<>>]]
    /\ iteration = 0
    /\ result = IF Len(normalized.products) = 0 THEN EmptyResult ELSE Running
    /\ request = None
    /\ reply = None
    /\ previous = None
    /\ call = None

(* unscheduled.findIndex(op => same productId and stepIndex) *)
PoolIndex(pool, productId, stepIndex) ==
    LET hits == {i \in 1..Len(pool) :
                    pool[i].productId = productId /\ pool[i].stepIndex = stepIndex}
    IN IF hits = {} THEN 0 ELSE SetMin(hits)

(* Splice that removes nothing *)
SpliceNothing(pool, index) == pool

(* unscheduled.splice(index, 1) *)
Splice(pool, index) ==
    SubSeq(pool, 1, index - 1) \o SubSeq(pool, index + 1, Len(pool))

(* lines 407-415: nextOp.earliestStart = priorStep.end *)
WithPriorEnd(nextOp, assigned) ==
    LET priorStep == FindStep(GetOrEmpty(assigned, nextOp.productId),
                              nextOp.stepIndex - 1)
    IN IF nextOp.stepIndex > 0 /\ priorStep # None
       THEN [nextOp EXCEPT !.earliestStart = priorStep[1].end]
       ELSE nextOp

(* RaiseNextStep that leaves the next step as it is *)
RaiseNextStepNever(pool, nextOp, assignment) == pool

(* lines 482-488: raise earliestStart of the product's next step *)
RaiseNextStep(pool, nextOp, assignment) ==
    LET k == PoolIndex(pool, nextOp.productId, nextOp.stepIndex + 1)
    IN IF k = 0 THEN pool
       ELSE [pool EXCEPT ![k].earliestStart = Max(@, assignment.end)]

MakeAssignment(nextOp, placement) ==
    [productId     |-> nextOp.productId,
     productFamily |-> nextOp.productFamily,
     stepIndex     |-> nextOp.stepIndex,
     operationName |-> nextOp.capability,
     resource      |-> placement.resource,
     start         |-> placement.start,
     end           |-> placement.end]

(* assignments.get(productId)!.push(assignment), creating the list first *)
PushAssignment(assigned, assignment) ==
    IF assignment.productId \in DOMAIN assigned
    THEN [assigned EXCEPT ![assignment.productId] = Append(@, assignment)]
    ELSE assigned @@ (assignment.productId :> <<assignment>>)

(* OperationLine that numbers steps from one *)
OperationLineOneBased(nextOp, text) ==
    [product |-> nextOp.productId, step |-> nextOp.stepIndex + 1,
     capability |-> nextOp.capability, text |-> text]

OperationLine(nextOp, text) ==
    [product |-> nextOp.productId, step |-> nextOp.stepIndex,
     capability |-> nextOp.capability, text |-> text]

ClosestLine(bestNear) ==
    [closest |-> bestNear.resource, gap |-> bestNear.gap,
     needed |-> bestNear.needed, changeover |-> bestNear.changeover]

CannotPlaceWhy(nextOp, bestNear) ==
    <<OperationLine(nextOp, "No available time slot found on eligible resources")>>
    \o (IF bestNear # None THEN <<ClosestLine(bestNear[1])>> ELSE <<>>)

(* One pass through the loop body, lines 377-495. clockExpired is the
   outcome of Date.now() > deadline. *)
Iterate ==
    /\ result = Running
    /\ Len(unscheduled) > 0
    /\ UNCHANGED <<horizon, normalized>>
    /\ UNCHANGED outer
    /\ \E clockExpired \in BOOLEAN :
        IF clockExpired
        THEN /\ result' = Failure("Time limit exceeded",
                    <<"settings.time_limit_seconds reached before completing schedule">>)
             /\ UNCHANGED <<unscheduled, assignments, allAssignments,
                            resourceStates, iteration>>
        ELSE
        /\ iteration' = iteration + 1
        /\ IF iteration > maxIterations
           THEN /\ result' = Failure("Scheduler stuck in infinite loop",
                                     <<"Maximum iterations exceeded">>)
                /\ UNCHANGED <<unscheduled, assignments, allAssignments, resourceStates>>
           ELSE
           LET selected == selectNextOperation(unscheduled, assignments)
           IN
           IF selected = None
           THEN /\ result' = Failure("No ready operations available",
                                     <<"Precedence deadlock detected">>)
                /\ UNCHANGED <<unscheduled, assignments, allAssignments, resourceStates>>
           ELSE
           LET index == PoolIndex(unscheduled, selected[1].productId,
                                  selected[1].stepIndex)
               nextOp == WithPriorEnd(selected[1], assignments)
               pool == [unscheduled EXCEPT ![index] = nextOp]
               eligible == getEligibleResources(nextOp, normalized.resources)
               placed == tryPlaceOperation(nextOp, eligible, resourceStates,
                                           normalized.changeoverMatrix)
           IN
           IF Len(eligible) = 0
           THEN /\ result' = Failure("No eligible resources",
                       <<OperationLine(nextOp, "No resource has required capability")>>)
                /\ unscheduled' = pool
                /\ UNCHANGED <<assignments, allAssignments, resourceStates>>
           ELSE IF placed.placement = None
           THEN /\ result' = Failure("Cannot place operation",
                                     CannotPlaceWhy(nextOp, placed.bestNear))
                /\ unscheduled' = pool
                /\ UNCHANGED <<assignments, allAssignments, resourceStates>>
           ELSE IF placed.placement[1].end > normalized.horizonEnd
           THEN /\ result' = Failure("Horizon exceeded",
                       <<[product |-> nextOp.productId, step |-> nextOp.stepIndex,
                          capability |-> nextOp.capability,
                          end |-> placed.placement[1].end,
                          horizon |-> normalized.horizonEnd]>>)
                /\ unscheduled' = pool
                /\ UNCHANGED <<assignments, allAssignments, resourceStates>>
           ELSE
           LET assignment == MakeAssignment(nextOp, placed.placement[1])
           IN /\ assignments' = PushAssignment(assignments, assignment)
              /\ allAssignments' = Append(allAssignments, assignment)
              /\ resourceStates' =
                     [resourceStates EXCEPT ![assignment.resource] =
                         updateResourceState(@, assignment)]
              /\ unscheduled' = Splice(RaiseNextStep(pool, nextOp, assignment), index)
              /\ UNCHANGED result

(* lines 497-517: the first overlap of the final check, in resource order *)
OverlapAt(rid) ==
    LET assigned == SortByStart(resourceStates[rid].assignments)
        hits == {i \in 2..Len(assigned) : assigned[i].start < assigned[i - 1].end}
    IN IF hits = {} THEN None
       ELSE Some([resource |-> rid,
                  first |-> assigned[SetMin(hits) - 1],
                  second |-> assigned[SetMin(hits)]])

FirstOverlap ==
    LET hits == {i \in 1..Len(normalized.resources) :
                    OverlapAt(normalized.resources[i].id) # None}
    IN IF hits = {} THEN None
       ELSE OverlapAt(normalized.resources[SetMin(hits)].id)

(* Finish that consults the deadline before the final check *)
FinishAfterDeadlineCheck ==
    /\ result = Running
    /\ Len(unscheduled) = 0
    /\ \E clockExpired \in BOOLEAN :
         result' =
            IF clockExpired
            THEN Failure("Time limit exceeded",
                    <<"settings.time_limit_seconds reached before completing schedule">>)
            ELSE IF FirstOverlap # None
            THEN Failure("Validation failed: overlap detected", <<FirstOverlap[1]>>)
            ELSE denormalizeResult(allAssignments, normalized.horizonStart,
                                   normalized.products, normalized.resources,
                                   normalized.changeoverMatrix)
    /\ UNCHANGED <<horizon, normalized, unscheduled, assignments, allAssignments,
                   resourceStates, iteration>>
    /\ UNCHANGED outer

(* lines 497-525: the loop has ended with an empty pool *)
Finish ==
    /\ result = Running
    /\ Len(unscheduled) = 0
    /\ result' =
          IF FirstOverlap # None
          THEN Failure("Validation failed: overlap detected", <<FirstOverlap[1]>>)
          ELSE denormalizeResult(allAssignments, normalized.horizonStart,
                                 normalized.products, normalized.resources,
                                 normalized.changeoverMatrix)
    /\ UNCHANGED <<horizon, normalized, unscheduled, assignments, allAssignments,
                   resourceStates, iteration>>
    /\ UNCHANGED outer

Next == Iterate \/ Finish

Spec == Init /\ [][Next]_vars

----------------------------------------------------------------------------
(* Properties *)

Succeeded == result # Running /\ result.success
FailedWith(error) == result # Running /\ ~result.success /\ result.error = error

Placed == {allAssignments[i] : i \in 1..Len(allAssignments)}

(* horizon end minus horizon start, in minutes, from the request's timestamps *)
HorizonLength == (horizon.end - horizon.start) \div MsPerMinute

(* the changeover matrix entry for a pair of families, 0 when the key is absent *)
MatrixEntry(from, to) ==
    IF <<from, to>> \in DOMAIN normalized.changeoverMatrix
    THEN normalized.changeoverMatrix[<<from, to>>] ELSE 0

(* the assignments of one resource in chronological order *)
Chronological(rid) == SortByStart(ResourceAssignments(allAssignments, rid))

(* C1: No-overlap. In every state of a run, any two distinct assignments on
   the same resource have non-overlapping half-open intervals [start, end). *)
C1_NoOverlap ==
    \A i, j \in 1..Len(allAssignments) :
        (i < j /\ allAssignments[i].resource = allAssignments[j].resource)
        => ~(/\ allAssignments[i].start < allAssignments[j].end
             /\ allAssignments[j].start < allAssignments[i].end)

(* a success result in which an operation was placed in front of an
   assignment made earlier on the same resource *)
C1_Witness ==
    /\ Succeeded
    /\ \E i, j \in 1..Len(allAssignments) :
        /\ i < j
        /\ allAssignments[i].resource = allAssignments[j].resource
        /\ allAssignments[j].end <= allAssignments[i].start

(* C2: Calendar containment. Every assignment lies fully inside one
   normalized calendar window of its resource. *)
C2_CalendarContainment ==
    \A a \in Placed :
        \E k \in 1..Len(ResourceById(a.resource).calendar) :
            /\ ResourceById(a.resource).calendar[k].start <= a.start
            /\ a.end <= ResourceById(a.resource).calendar[k].end

(* C3: Changeover lower bound. In every success result, two chronologically
   adjacent assignments on one resource with differing families are at least
   changeover(prev.family, next.family) apart. *)
C3_ChangeoverLowerBound ==
    Succeeded =>
        \A rid \in ResourceIds :
            \A k \in 1..(Len(Chronological(rid)) - 1) :
                LET prev == Chronological(rid)[k]
                    next == Chronological(rid)[k + 1]
                IN prev.productFamily # next.productFamily
                   => next.start - prev.end
                        >= MatrixEntry(prev.productFamily, next.productFamily)

(* C4: Precedence. In every state of a run, for every product and every pair
   of consecutive steps that both have assignments, the later step starts no
   earlier than the earlier step ends. *)
C4_Precedence ==
    \A a, b \in Placed :
        (a.productId = b.productId /\ b.stepIndex = a.stepIndex + 1)
        => b.start >= a.end

(* two consecutive steps of one product placed on different resources *)
C4_Witness ==
    \E a, b \in Placed :
        /\ a.productId = b.productId
        /\ b.stepIndex = a.stepIndex + 1
        /\ a.resource # b.resource
        /\ b.start >= a.end

(* C5: Horizon containment. Every assignment has 0 <= start and
   end <= horizon_length. *)
C5_HorizonContainment ==
    \A a \in Placed : 0 <= a.start /\ a.end <= HorizonLength

(* an assignment that ends exactly at the end of the horizon *)
C5_Witness ==
    \E a \in Placed : a.end = HorizonLength

(* the capability the route asks for at an assignment's step *)
RequiredCapability(a) ==
    productsMap(a.productId).route[a.stepIndex + 1].capability

(* C6: Eligibility. Every assignment is on a resource whose capability set
   contains the capability its operation requires. *)
C6_Eligibility ==
    \A a \in Placed :
        RequiredCapability(a) \in ResourceById(a.resource).capabilities

(* an assignment of an operation that some resource could not have taken *)
C6_Witness ==
    \E a \in Placed :
        /\ RequiredCapability(a) \in ResourceById(a.resource).capabilities
        /\ \E i \in 1..Len(normalized.resources) :
               RequiredCapability(a) \notin normalized.resources[i].capabilities

(* every (product id, step index) of every route *)
RouteSteps ==
    UNION {{<<normalized.products[i].id, k - 1>> :
               k \in 1..Len(normalized.products[i].route)} :
           i \in 1..Len(normalized.products)}

TotalRouteLength ==
    SumSeq([i \in 1..Len(normalized.products) |-> Len(normalized.products[i].route)])

CountOf(list, productId, stepIndex) ==
    Cardinality({i \in 1..Len(list) :
                    list[i].productId = productId /\ list[i].stepIndex = stepIndex})

(* C7: Completeness. Every operation is either in the pool once or placed
   once, never both; success is returned only with an empty pool, and then
   every (product, step) has exactly one assignment, the result lists as many
   assignments as the routes have steps, and route.length of them per
   product. *)
C7_Completeness ==
    /\ \A ps \in RouteSteps :
           CountOf(unscheduled, ps[1], ps[2]) + CountOf(allAssignments, ps[1], ps[2]) = 1
    /\ Succeeded =>
           /\ unscheduled = <<>>
           /\ \A ps \in RouteSteps : CountOf(allAssignments, ps[1], ps[2]) = 1
           /\ Len(result.assignments) = TotalRouteLength
           /\ \A i \in 1..Len(normalized.products) :
                  Cardinality({k \in 1..Len(result.assignments) :
                      result.assignments[k].product = normalized.products[i].id})
                  = Len(normalized.products[i].route)

(* a success result for two products with three operations between them *)
C7_Witness ==
    /\ Succeeded
    /\ Len(normalized.products) = 2
    /\ Len(result.assignments) = 3

----------------------------------------------------------------------------
(* The constraint model of the input, independent of the run *)

AllOperations == buildOperationsList(normalized.products)

(* candidate schedules: a resource and a start for every operation *)
Schedules ==
    [1..Len(AllOperations) ->
        [resource : ResourceIds, start : 0..normalized.horizonEnd]]

EndIn(s, i) == s[i].start + AllOperations[i].duration

(* j directly follows i on their resource *)
AdjacentIn(s, i, j) ==
    /\ i # j
    /\ s[i].resource = s[j].resource
    /\ EndIn(s, i) <= s[j].start
    /\ \A k \in DOMAIN s :
           (k # i /\ k # j /\ s[k].resource = s[i].resource)
           => (EndIn(s, k) <= s[i].start \/ s[k].start >= s[j].start)

SatisfiesConstraints(s) ==
    /\ \A i \in DOMAIN s :
           /\ AllOperations[i].capability \in ResourceById(s[i].resource).capabilities
           /\ EndIn(s, i) <= normalized.horizonEnd
           /\ isWithinCalendarWindow(s[i].start, EndIn(s, i),
                                     ResourceById(s[i].resource).calendar)
    /\ \A i, j \in DOMAIN s :
           /\ (/\ AllOperations[i].productId = AllOperations[j].productId
               /\ AllOperations[j].stepIndex = AllOperations[i].stepIndex + 1)
              => s[j].start >= EndIn(s, i)
           /\ (i # j /\ s[i].resource = s[j].resource)
              => (EndIn(s, i) <= s[j].start \/ EndIn(s, j) <= s[i].start)
           /\ (/\ AdjacentIn(s, i, j)
               /\ AllOperations[i].productFamily # AllOperations[j].productFamily)
              => s[j].start - EndIn(s, i)
                   >= MatrixEntry(AllOperations[i].productFamily,
                                  AllOperations[j].productFamily)

Satisfiable == \E s \in Schedules : SatisfiesConstraints(s)

(* the operation a failure's first detail line names, as it is in the pool *)
FailedOperation ==
    unscheduled[PoolIndex(unscheduled, result.why[1].product, result.why[1].step)]

(* The gaps Placement Search looks at for an operation: on every eligible
   resource, in every calendar window, before, between and after the
   resource's assignments. *)
ExaminedGaps(op) ==
    UNION {
      UNION {
        {[resource |-> normalized.resources[r].id,
          from |-> Max(op.earliestStart,
                       IF i >= 1
                       THEN resourceStates[normalized.resources[r].id].assignments[i].end
                       ELSE normalized.resources[r].calendar[w].start),
          to |-> Min(normalized.resources[r].calendar[w].end,
                     IF i + 1 <= Len(resourceStates[normalized.resources[r].id].assignments)
                     THEN resourceStates[normalized.resources[r].id].assignments[i + 1].start
                     ELSE normalized.resources[r].calendar[w].end),
          changeover |->
              IF i >= 1
              THEN MatrixEntry(
                     resourceStates[normalized.resources[r].id].assignments[i].productFamily,
                     op.productFamily)
              ELSE 0] :
            i \in 0..Len(resourceStates[normalized.resources[r].id].assignments)} :
        w \in 1..Len(normalized.resources[r].calendar)} :
      r \in {q \in 1..Len(normalized.resources) :
                op.capability \in normalized.resources[q].capabilities}}

PositiveGaps(op) == {g \in ExaminedGaps(op) : g.to > g.from}

Admits(g, op) == g.to > g.from /\ g.from + g.changeover + op.duration <= g.to

(* C8 as claimed: a run that ends with 'Cannot place operation' has an
   unsatisfiable input: no assignment of all operations meets eligibility,
   precedence, no-overlap, calendar, changeover and horizon constraints. *)
C8_CannotPlaceImpliesUnsatisfiable ==
    FailedWith("Cannot place operation") => ~Satisfiable

(* C8 as amended: a run that ends with 'Cannot place operation' names an
   operation that some resource is capable of and that no gap examined on any
   eligible resource admits, given the assignments the run has already made. *)
C8_CannotPlaceMeansNoGapAdmits ==
    FailedWith("Cannot place operation") =>
        /\ \E r \in 1..Len(normalized.resources) :
               FailedOperation.capability \in normalized.resources[r].capabilities
        /\ \A g \in ExaminedGaps(FailedOperation) : ~Admits(g, FailedOperation)

(* a 'Cannot place operation' failure after at least one placement, on an
   input that another placement order satisfies *)
C8_Witness ==
    /\ FailedWith("Cannot place operation")
    /\ Len(allAssignments) > 0
    /\ Satisfiable

NoResourceFor(op) ==
    \A r \in 1..Len(normalized.resources) :
        op.capability \notin normalized.resources[r].capabilities

TimeLimitResult ==
    [success |-> FALSE, error |-> "Time limit exceeded",
     why |-> <<"settings.time_limit_seconds reached before completing schedule">>]

(* C9: whenever the operation selected in an iteration requires a capability
   that no resource has, that iteration ends the run with 'No eligible
   resources', the detail line names the operation's product id and step
   index, and no assignment is created. *)
C9_NoEligibleResourceEndsRun ==
    [][(/\ result = Running
        /\ Len(unscheduled) > 0
        /\ iteration <= maxIterations
        /\ result' # TimeLimitResult
        /\ selectNextOperation(unscheduled, assignments) # None
        /\ NoResourceFor(selectNextOperation(unscheduled, assignments)[1]))
       => (/\ result' # Running
           /\ ~result'.success
           /\ result'.error = "No eligible resources"
           /\ Len(result'.why) = 1
           /\ result'.why[1].product
                = selectNextOperation(unscheduled, assignments)[1].productId
           /\ result'.why[1].step
                = selectNextOperation(unscheduled, assignments)[1].stepIndex
           /\ allAssignments' = allAssignments
           /\ assignments' = assignments
           /\ resourceStates' = resourceStates)]_vars

(* a 'No eligible resources' failure for a second step, after the first step
   of the product was placed *)
C9_Witness ==
    /\ FailedWith("No eligible resources")
    /\ result.why[1].step = 1
    /\ NoResourceFor(FailedOperation)
    /\ Len(allAssignments) > 0

(* the second detail line reports a largest examined gap and its changeover *)
ReportsLargestGap(op) ==
    /\ Len(result.why) = 2
    /\ \E g \in PositiveGaps(op) :
           /\ result.why[2].closest = g.resource
           /\ result.why[2].gap = g.to - g.from
           /\ result.why[2].changeover = g.changeover
           /\ result.why[2].needed = g.changeover + op.duration
    /\ \A g \in PositiveGaps(op) : g.to - g.from <= result.why[2].gap

NamesFailedOperation ==
    /\ Len(result.why) >= 1
    /\ PoolIndex(unscheduled, result.why[1].product, result.why[1].step) > 0
    /\ <<result.why[1].product, result.why[1].step>> \in RouteSteps

(* C10 as claimed: whenever a run fails with 'Cannot place operation', the
   why list names the product and step and also includes the largest
   near-miss gap among the eligible resources with the changeover time
   required at that gap. *)
C10_WhyIncludesLargestGap ==
    FailedWith("Cannot place operation") =>
        NamesFailedOperation /\ ReportsLargestGap(FailedOperation)

(* C10 as amended: the why list names the product and step; when some gap of
   positive length was examined on the eligible resources it also includes a
   largest such gap with the changeover time required there, and when every
   examined gap is empty it has the product and step line only. *)
C10_WhyIncludesLargestGapIfAny ==
    FailedWith("Cannot place operation") =>
        /\ NamesFailedOperation
        /\ IF PositiveGaps(FailedOperation) = {}
           THEN Len(result.why) = 1
           ELSE ReportsLargestGap(FailedOperation)

(* a 'Cannot place operation' failure with examined gaps of two different
   positive lengths, the larger one reported *)
C10_Witness ==
    /\ FailedWith("Cannot place operation")
    /\ Len(result.why) = 2
    /\ \E g, h \in PositiveGaps(FailedOperation) :
           g.to - g.from < h.to - h.from

----------------------------------------------------------------------------
(* KPIs and results *)

(* C11: Empty input. When the product list is empty, schedule() returns
   success without entering the driving loop (no iteration is counted and
   nothing is placed), with an empty assignment list, tardiness_minutes =
   changeovers = makespan_minutes = on_time_jobs = total_jobs = 0 and an
   empty utilization map, whatever the resources and the horizon are. *)
C11_EmptyInput ==
    Len(normalized.products) = 0 =>
        /\ result # Running
        /\ result.success
        /\ result.assignments = <<>>
        /\ result.kpis.tardiness_minutes = 0
        /\ result.kpis.changeovers = 0
        /\ result.kpis.makespan_minutes = 0
        /\ result.kpis.on_time_jobs = 0
        /\ result.kpis.total_jobs = 0
        /\ DOMAIN result.kpis.utilization = {}
        /\ iteration = 0
        /\ allAssignments = <<>>
        /\ ~ENABLED Iterate
        /\ ~ENABLED Finish

(* a run on an empty product list with two resources, one of them with a
   calendar of two windows *)
C11_Witness ==
    /\ Len(normalized.products) = 0
    /\ Succeeded
    /\ Len(normalized.resources) = 2
    /\ \E i \in 1..2 : Len(normalized.resources[i].calendar) = 2

(* the products of the input, by position; normalizeInput keeps their number
   and order *)
ProductIndexes == 1..Len(normalized.products)

(* the latest end among the assignments of the product at position i *)
CompletionOf(i) ==
    LET ends == {a.end : a \in {b \in Placed :
                                   b.productId = normalized.products[i].id}}
    IN IF ends = {} THEN 0 ELSE SetMax(ends)

(* the products that complete after their due time *)
TardyProducts ==
    {i \in ProductIndexes : CompletionOf(i) > normalized.products[i].due}

(* C12: KPI consistency. In every success result total_jobs equals the
   number of input products, on_time_jobs plus the number of products with
   positive tardiness equals total_jobs, and makespan_minutes equals
   max(end) - min(start) over all assignments (0 when there are none). *)
C12_KpiConsistency ==
    Succeeded =>
        /\ result.kpis.total_jobs = Len(normalized.products)
        /\ result.kpis.on_time_jobs + Cardinality(TardyProducts)
             = result.kpis.total_jobs
        /\ result.kpis.makespan_minutes =
             IF Placed = {} THEN 0
             ELSE SetMax({a.end : a \in Placed}) - SetMin({a.start : a \in Placed})

(* a success with one product on time and one late, whose first assignment
   starts after the start of the horizon *)
C12_Witness ==
    /\ Succeeded
    /\ Len(normalized.products) = 2
    /\ Cardinality(TardyProducts) = 1
    /\ SetMin({a.start : a \in Placed}) > 0
    /\ result.kpis.makespan_minutes > 0

(* C13: Tardiness KPI. In every success result tardiness_minutes equals the
   sum over all products of max(0, completion - due), where completion is
   the maximum end over that product's assignments, and on_time_jobs counts
   exactly the products whose completion <= due. *)
C13_TardinessKpi ==
    Succeeded =>
        /\ result.kpis.tardiness_minutes =
             SumSeq([i \in ProductIndexes |->
                        Max(0, CompletionOf(i) - normalized.products[i].due)])
        /\ result.kpis.on_time_jobs =
             Cardinality({i \in ProductIndexes :
                             CompletionOf(i) <= normalized.products[i].due})

(* a success with a late product of two steps and a product on time *)
C13_Witness ==
    /\ Succeeded
    /\ result.kpis.tardiness_minutes >= 2
    /\ result.kpis.on_time_jobs = 1
    /\ \E i \in TardyProducts : Len(normalized.products[i].route) = 2

(* the pairs of assignments that follow one another on a resource, nothing
   on that resource starting between them *)
AdjacentPairs ==
    {p \in Placed \X Placed :
        /\ p[1].resource = p[2].resource
        /\ p[1].start < p[2].start
        /\ ~\E c \in Placed :
              /\ c.resource = p[1].resource
              /\ p[1].start < c.start
              /\ c.start < p[2].start}

(* C14: Changeover KPI. In every success result kpis.changeovers equals the
   number of pairs of chronologically adjacent assignments on the same
   resource whose families differ, summed over all resources (two
   single-step products of different families placed on one resource give
   changeovers = 1). *)
C14_ChangeoverKpi ==
    Succeeded =>
        result.kpis.changeovers =
            Cardinality({p \in AdjacentPairs :
                            p[1].productFamily # p[2].productFamily})

(* a success with two single-step products of different families on one
   resource *)
C14_Witness ==
    /\ Succeeded
    /\ Len(allAssignments) = 2
    /\ allAssignments[1].resource = allAssignments[2].resource
    /\ allAssignments[1].productFamily # allAssignments[2].productFamily
    /\ result.kpis.changeovers = 1

(* minutes of a resource's normalized calendar *)
CalendarCapacity(resource) ==
    SumSeq([k \in 1..Len(resource.calendar) |->
               resource.calendar[k].end - resource.calendar[k].start])

(* minutes of operations on a resource *)
BusyMinutes(rid) ==
    LET mine == Chronological(rid)
    IN SumSeq([k \in 1..Len(mine) |-> mine[k].end - mine[k].start])

(* matrix minutes of the adjacent pairs of differing families on a resource *)
ChangeoverMinutesOn(rid) ==
    LET mine == Chronological(rid)
    IN SumSeq([k \in 1..(Len(mine) - 1) |->
           IF mine[k].productFamily # mine[k + 1].productFamily
           THEN MatrixEntry(mine[k].productFamily, mine[k + 1].productFamily)
           ELSE 0])

(* C15: Utilization bound. In every success result the utilization reported
   for each resource, round(100 * (busy minutes + changeover minutes on that
   resource) / calendar capacity), is between 0 and 100 inclusive. *)
C15_UtilizationBound ==
    Succeeded /\ result.assignments # <<>> =>
        \A i \in 1..Len(normalized.resources) :
            LET r == normalized.resources[i]
                used == BusyMinutes(r.id) + ChangeoverMinutesOn(r.id)
                capacity == Max(CalendarCapacity(r), 1)
            IN /\ 2 * capacity * result.kpis.utilization[r.id]
                    <= 200 * used + capacity
               /\ 200 * used + capacity
                    < 2 * capacity * (result.kpis.utilization[r.id] + 1)
               /\ result.kpis.utilization[r.id] >= 0
               /\ result.kpis.utilization[r.id] <= 100

----------------------------------------------------------------------------
(* Calls of the timeUtils functions on their own. One behaviour of
   TimeUtilsSpec is one call: Init holds the arguments, the action applies
   the function and records what it returns. schedule() is not called. *)

MaxIntervals == 3    \* longest list given to combineOverlappingIntervals
MaxOccupied == 2     \* longest occupied list given to findEarliestAvailableSlot

(* thirty seconds: timestamps carry seconds, offsets are whole minutes *)
HalfMinute == MsPerMinute \div 2

Points == 0..MaxTime

(* any pair of offsets, also empty and inverted ones *)
AnyIntervals == {[start |-> s, end |-> e] : s \in Points, e \in Points}

(* intervals of positive length *)
ProperIntervals == {w \in AnyIntervals : w.start < w.end}

ListsOf(S, n) == UNION {[1..k -> S] : k \in 0..n}

(* calendars as normalizeInput leaves them: sorted, disjoint windows *)
SortedCalendars ==
    {c \in ListsOf(ProperIntervals, 2) :
        \A i \in 1..(Len(c) - 1) : c[i].end <= c[i + 1].start}

HorizonStarts == {Ts(0), Ts(1) + HalfMinute}

NotCalled == [called |-> FALSE]

CombineCalls ==
    {[fn |-> "combineOverlappingIntervals", intervals |-> l, returned |-> None] :
        l \in ListsOf(AnyIntervals, MaxIntervals)}

FindSlotCalls ==
    {[fn |-> "findEarliestAvailableSlot", calendar |-> c, occupied |-> o,
      duration |-> d, earliestStart |-> e, returned |-> None] :
        c \in SortedCalendars, o \in ListsOf(ProperIntervals, MaxOccupied),
        d \in Durations, e \in Points}

FormatCalls ==
    {[fn |-> "formatIsoOffset", minutes |-> m, horizonStart |-> hs,
      returned |-> None] : m \in Points, hs \in HorizonStarts}

ParseCalls ==
    {[fn |-> "parseIsoOffset", isoString |-> hs + k * HalfMinute,
      horizonStart |-> hs, returned |-> None] :
        k \in 0..(2 * MaxTime), hs \in HorizonStarts}

TimeUtilsInit ==
    /\ call \in CombineCalls \cup FindSlotCalls \cup FormatCalls \cup ParseCalls
    /\ horizon = None
    /\ normalized = None
    /\ unscheduled = <<>>
    /\ assignments = <<>>
    /\ allAssignments = <<>>
    /\ resourceStates = <<>>
    /\ iteration = 0
    /\ result = NotCalled
    /\ request = None
    /\ reply = None
    /\ previous = None

Pending(fn) == call.fn = fn /\ call.returned = None

Returned(fn) == call # None /\ call.fn = fn /\ call.returned # None

engine == <<horizon, normalized, unscheduled, assignments, allAssignments,
            resourceStates, iteration, result>>

Combine ==
    /\ Pending("combineOverlappingIntervals")
    /\ call' = [call EXCEPT
                  !.returned = Some(combineOverlappingIntervals(call.intervals))]
    /\ UNCHANGED <<engine, request, reply, previous>>

FindSlot ==
    /\ Pending("findEarliestAvailableSlot")
    /\ call' = [call EXCEPT
                  !.returned = Some(findEarliestAvailableSlot(
                                      call.calendar, call.occupied,
                                      call.duration, call.earliestStart))]
    /\ UNCHANGED <<engine, request, reply, previous>>

Format ==
    /\ Pending("formatIsoOffset")
    /\ call' = [call EXCEPT
                  !.returned = Some(formatIsoOffset(call.minutes, call.horizonStart))]
    /\ UNCHANGED <<engine, request, reply, previous>>

Parse ==
    /\ Pending("parseIsoOffset")
    /\ call' = [call EXCEPT
                  !.returned = Some(parseIsoOffset(call.isoString, call.horizonStart))]
    /\ UNCHANGED <<engine, request, reply, previous>>

TimeUtilsNext == Combine \/ FindSlot \/ Format \/ Parse

TimeUtilsSpec == TimeUtilsInit /\ [][TimeUtilsNext]_vars

(* the whole minutes an interval list covers *)
Covered(list) ==
    {t \in Points : \E i \in 1..Len(list) : list[i].start <= t /\ t < list[i].end}

(* C16: Interval merge correctness. For any list of intervals,
   combineOverlappingIntervals returns intervals sorted by start, pairwise
   non-overlapping and non-adjacent, whose union equals the union of the
   input; the empty list maps to the empty list and merging an
   already-merged list returns it unchanged. *)
C16_MergeCorrect ==
    Returned("combineOverlappingIntervals") =>
        LET in == call.intervals
            out == call.returned[1]
        IN /\ \A i \in 1..(Len(out) - 1) : out[i].start <= out[i + 1].start
           /\ \A i, j \in 1..Len(out) :
                  i < j => /\ ~doIntervalsOverlap(out[i], out[j])
                           /\ out[i].end < out[j].start
           /\ Covered(out) = Covered(in)
           /\ (in = <<>> => out = <<>>)
           /\ combineOverlappingIntervals(out) = out

(* three intervals given out of order, two of them adjacent, merged into two *)
C16_Witness ==
    /\ Returned("combineOverlappingIntervals")
    /\ Len(call.intervals) = 3
    /\ call.intervals[1].start > call.intervals[2].start
    /\ \E i, j \in 1..3 : /\ call.intervals[i].start < call.intervals[i].end
                          /\ call.intervals[i].end = call.intervals[j].start
                          /\ call.intervals[j].start < call.intervals[j].end
    /\ Len(call.returned[1]) = 2

(* the offsets at which the operation of a findEarliestAvailableSlot call
   fits: not before earliestStart, inside one window, clear of every
   occupied interval *)
FittingOffsets ==
    {t \in Points :
        /\ t >= call.earliestStart
        /\ \E i \in 1..Len(call.calendar) :
               /\ call.calendar[i].start <= t
               /\ t + call.duration <= call.calendar[i].end
        /\ \A i \in 1..Len(call.occupied) :
               ~doIntervalsOverlap([start |-> t, end |-> t + call.duration],
                                   call.occupied[i])}

(* C17: findEarliestAvailableSlot(calendar, occupied, duration,
   earliestStart), for a calendar of sorted disjoint windows, returns the
   smallest offset t >= earliestStart such that [t, t + duration) lies
   inside a single calendar window and overlaps no occupied interval, and
   returns null exactly when no such t exists. *)
C17_EarliestSlot ==
    Returned("findEarliestAvailableSlot") =>
        call.returned[1] =
            IF FittingOffsets = {} THEN None ELSE Some(SetMin(FittingOffsets))

(* a slot found in the second window of the calendar, later than
   earliestStart, past an occupied interval that covers earliestStart *)
C17_Witness ==
    /\ Returned("findEarliestAvailableSlot")
    /\ Len(call.calendar) = 2
    /\ call.returned[1] # None
    /\ call.returned[1][1] >= call.calendar[2].start
    /\ call.returned[1][1] > call.earliestStart
    /\ \E i \in 1..Len(call.occupied) :
           /\ call.occupied[i].start <= call.earliestStart
           /\ call.earliestStart < call.occupied[i].end

(* a call that finds no slot although the calendar has a window that is long
   enough and ends after earliestStart *)
C17_WitnessNone ==
    /\ Returned("findEarliestAvailableSlot")
    /\ call.returned[1] = None
    /\ \E i \in 1..Len(call.calendar) :
           /\ call.calendar[i].end - call.calendar[i].start >= call.duration
           /\ call.calendar[i].end > call.earliestStart

(* C18: Time conversion round trip. For every minute offset m within the
   horizon, parseIsoOffset(formatIsoOffset(m, start), start) = m, and
   conversely for every timestamp t within the horizon,
   formatIsoOffset(parseIsoOffset(t, start), start) denotes the same instant
   as t. *)
C18_RoundTrip ==
    /\ Returned("formatIsoOffset") =>
           parseIsoOffset(call.returned[1], call.horizonStart) = call.minutes
    /\ Returned("parseIsoOffset") =>
           formatIsoOffset(call.returned[1], call.horizonStart) = call.isoString

(* the first half of C18 alone: an offset formatted and parsed again is the
   same offset *)
C18_OffsetRoundTrip ==
    Returned("formatIsoOffset") =>
        parseIsoOffset(call.returned[1], call.horizonStart) = call.minutes

(* the second half of C18 for timestamps a whole number of minutes after the
   horizon start *)
C18_WholeMinuteRoundTrip ==
    (/\ Returned("parseIsoOffset")
     /\ (call.isoString - call.horizonStart) % MsPerMinute = 0) =>
        formatIsoOffset(call.returned[1], call.horizonStart) = call.isoString

----------------------------------------------------------------------------
(* Two calls of schedule() on the same input, one after the other. A
   behaviour of RerunSpec is a call that returns before its deadline,
   followed by a second call on the same input. *)

TimeLimitExceeded(r) == ~r.success /\ r.error = "Time limit exceeded"

(* the second call: lines 342-375 again, on the same input *)
Rerun ==
    /\ result # Running
    /\ previous = None
    /\ ~TimeLimitExceeded(result)
    /\ previous' = Some(result)
    /\ unscheduled' = buildOperationsList(normalized.products)
    /\ assignments' = <<>>
    /\ allAssignments' = <<>>
    /\ resourceStates' =
           [rid \in ResourceIds |-> [lastFamily |-> None, assignments |-> <<>>]]
    /\ iteration' = 0
    /\ result' = IF Len(normalized.products) = 0 THEN EmptyResult ELSE Running
    /\ UNCHANGED <<horizon, normalized, request, reply, call>>

RerunNext == Next \/ Rerun

(* inputs whose resources have one window each, open from the start of the
   horizon *)
RerunInit ==
    /\ Init
    /\ \A i \in 1..Len(normalized.resources) :
           /\ Len(normalized.resources[i].calendar) = 1
           /\ normalized.resources[i].calendar[1].start = 0

RerunSpec == RerunInit /\ [][RerunNext]_vars

(* C19: Determinism. Two runs of schedule() on identical input in which the
   wall-clock deadline does not fire return identical results: the same
   success flag, the same assignments with the same resources and times and
   the same KPIs, or the same error and why. *)
C19_Determinism ==
    (/\ previous # None
     /\ result # Running
     /\ ~TimeLimitExceeded(result)) => result = previous[1]

(* a second run that returned the first run's schedule of three assignments *)
C19_Witness ==
    /\ previous # None
    /\ Succeeded
    /\ previous[1].success
    /\ Len(result.assignments) = 3
    /\ Len(previous[1].assignments) = 3

(* a second run that failed as the first one did *)
C19_WitnessFailure ==
    /\ previous # None
    /\ FailedWith("Cannot place operation")
    /\ ~previous[1].success
    /\ Len(allAssignments) > 0

----------------------------------------------------------------------------
(* POST /schedule, src/src/api/routes.ts. A behaviour of HttpSpec is one
   request: Init is the handler entered with the request body; when
   inputSchema.parse accepts the body schedule() runs (Iterate, Finish) and
   Send replies with its result; when it throws a ZodError CatchZodError
   replies; CatchUnexpected is the last branch of the catch block, taken
   when any other exception escapes the call of schedule(). *)

Issue(path, rule) == [path |-> path, rule |-> rule]

IssueIf(cond, path, rule) == IF cond THEN <<Issue(path, rule)>> ELSE <<>>

RECURSIVE Flatten(_)
Flatten(lists) ==
    IF lists = <<>> THEN <<>> ELSE Head(lists) \o Flatten(Tail(lists))

(* resourceSchema, for the resource at position i *)
ResourceIssues(r, i) ==
    IssueIf(r.id = "", <<"resources", i - 1, "id">>, "min(1)")
    \o IssueIf(Len(r.capabilities) < 1,
               <<"resources", i - 1, "capabilities">>, "min(1)")
    \o Flatten([k \in 1..Len(r.capabilities) |->
           IssueIf(r.capabilities[k] = "",
                   <<"resources", i - 1, "capabilities", k - 1>>, "min(1)")])
    \o IssueIf(Len(r.calendar) < 1, <<"resources", i - 1, "calendar">>, "min(1)")

(* operationSchema, for step k of the product at position i *)
OperationIssues(o, i, k) ==
    IssueIf(o.capability = "",
            <<"products", i - 1, "route", k - 1, "capability">>, "min(1)")
    \o IssueIf(~(o.duration_minutes > 0),
               <<"products", i - 1, "route", k - 1, "duration_minutes">>,
               "positive")

(* productSchema, for the product at position i *)
ProductIssues(p, i) ==
    IssueIf(p.id = "", <<"products", i - 1, "id">>, "min(1)")
    \o IssueIf(p.family = "", <<"products", i - 1, "family">>, "min(1)")
    \o IssueIf(Len(p.route) < 1, <<"products", i - 1, "route">>, "min(1)")
    \o Flatten([k \in 1..Len(p.route) |-> OperationIssues(p.route[k], i, k)])

(* changeoverMatrixSchema: one issue per negative entry *)
RECURSIVE MatrixIssues(_, _)
MatrixIssues(values, keys) ==
    IF keys = {} THEN <<>>
    ELSE LET key == CHOOSE k \in keys : TRUE
         IN IssueIf(values[key] < 0,
                    <<"changeover_matrix_minutes", "values", key>>, "min(0)")
            \o MatrixIssues(values, keys \ {key})

(* settingsSchema; the field is required *)
SettingsIssues(body) ==
    IF "settings" \notin DOMAIN body
    THEN <<Issue(<<"settings">>, "required")>>
    ELSE IssueIf(~(body.settings.time_limit_seconds > 0),
                 <<"settings", "time_limit_seconds">>, "positive")

(* inputSchema.parse: the issues of the ZodError, none when the body passes *)
Validate(body) ==
    IssueIf(Len(body.resources) < 1, <<"resources">>, "min(1)")
    \o Flatten([i \in 1..Len(body.resources) |->
                   ResourceIssues(body.resources[i], i)])
    \o MatrixIssues(body.changeover_matrix_minutes.values,
                    DOMAIN body.changeover_matrix_minutes.values)
    \o Flatten([i \in 1..Len(body.products) |->
                   ProductIssues(body.products[i], i)])
    \o SettingsIssues(body)

(* the resource lists of the requests: R1 with one window, R1 and R2 open
   from the start of the horizon *)
HttpResourceLists ==
    {rs \in RawResourceLists :
        /\ Len(rs[1].calendar) = 1
        /\ rs[1].calendar[1][1] = Ts(0)
        /\ rs[2].calendar[1][1] = Ts(0)}

ValidBodies ==
    UNION {{MakeInput(rs, ps, m) : rs \in HttpResourceLists, m \in MatricesFor(ps)} :
              ps \in RawProductLists}

BaseBody ==
    MakeInput(
      <<[id |-> "R1", capabilities |-> <<"fill">>,
         calendar |-> <<<<Ts(0), Ts(MaxTime)>>>>]>>,
      <<[id |-> "P1", family |-> "A", due |-> Ts(1),
         route |-> <<[capability |-> "fill", duration_minutes |-> 1]>>]>>,
      (<<"A", "B">> :> 0))

(* bodies that inputSchema rejects *)
InvalidBodies ==
    {[BaseBody EXCEPT !.resources = <<>>],
     [BaseBody EXCEPT !.resources[1].id = ""],
     [BaseBody EXCEPT !.resources[1].capabilities = <<>>],
     [BaseBody EXCEPT !.resources[1].capabilities = <<"">>],
     [BaseBody EXCEPT !.resources[1].calendar = <<>>],
     [BaseBody EXCEPT !.products[1].id = ""],
     [BaseBody EXCEPT !.products[1].family = ""],
     [BaseBody EXCEPT !.products[1].route = <<>>],
     [BaseBody EXCEPT !.products[1].route[1].capability = ""],
     [BaseBody EXCEPT !.products[1].route[1].duration_minutes = 0],
     [BaseBody EXCEPT !.changeover_matrix_minutes.values = (<<"A", "B">> :> -1)],
     [BaseBody EXCEPT !.settings.time_limit_seconds = 0],
     [BaseBody EXCEPT !.products = <<>>, !.resources = <<>>],
     [f \in DOMAIN BaseBody \ {"settings"} |-> BaseBody[f]]}

Threw == [threw |-> TRUE]

HttpInit ==
    /\ request \in ValidBodies \cup InvalidBodies
    /\ reply = None
    /\ previous = None
    /\ call = None
    /\ IF Validate(request) = <<>>
       THEN /\ horizon = request.horizon
            /\ normalized = normalizeInput(request)
            /\ unscheduled = buildOperationsList(normalized.products)
            /\ assignments = <<>>
            /\ allAssignments = <<>>
            /\ resourceStates =
                   [rid \in ResourceIds |->
                       [lastFamily |-> None, assignments |-> <<>>]]
            /\ iteration = 0
            /\ result = IF Len(normalized.products) = 0
                        THEN EmptyResult ELSE Running
       ELSE /\ horizon = None
            /\ normalized = None
            /\ unscheduled = <<>>
            /\ assignments = <<>>
            /\ allAssignments = <<>>
            /\ resourceStates = <<>>
            /\ iteration = 0
            /\ result = NotCalled

(* the value schedule() returned, if it has returned *)
HasResult == result # Running /\ result # NotCalled /\ result # Threw

(* Send with the status taken from the success flag *)
SendStatusBySuccess ==
    /\ reply = None
    /\ HasResult
    /\ reply' = [status |-> IF result.success THEN 200 ELSE 422, body |-> result]
    /\ UNCHANGED <<engine, request, previous, call>>

(* line 13: reply.send(result) *)
Send ==
    /\ reply = None
    /\ HasResult
    /\ reply' = [status |-> 200, body |-> result]
    /\ UNCHANGED <<engine, request, previous, call>>

(* lines 15-22: inputSchema.parse threw a ZodError *)
CatchZodError ==
    /\ reply = None
    /\ result = NotCalled
    /\ Validate(request) # <<>>
    /\ reply' = [status |-> 400,
                 body |-> Failure("Invalid input", Validate(request))]
    /\ UNCHANGED <<engine, request, previous, call>>

(* lines 24-30: another exception left schedule() before it returned *)
CatchUnexpected ==
    /\ reply = None
    /\ result = Running
    /\ result' = Threw
    /\ reply' = [status |-> 500,
                 body |-> Failure("Internal server error",
                                  <<"An unexpected error occurred">>)]
    /\ UNCHANGED <<horizon, normalized, unscheduled, assignments, allAssignments,
                   resourceStates, iteration, request, previous, call>>

HttpNext == Iterate \/ Finish \/ Send \/ CatchZodError \/ CatchUnexpected

HttpSpec == HttpInit /\ [][HttpNext]_vars

(* C20: HTTP mapping of POST /schedule. The response status is 400 (error
   'Invalid input', non-empty why) exactly when schema validation of the
   body fails, 500 only when an unexpected exception escapes the engine, and
   200 for every engine result, including infeasibility results with
   success = false; the engine result is sent unchanged as the body. *)
C20_HttpMapping ==
    reply # None =>
        /\ reply.status \in {200, 400, 500}
        /\ (reply.status = 400 <=> Validate(request) # <<>>)
        /\ (reply.status = 400 =>
               /\ ~reply.body.success
               /\ reply.body.error = "Invalid input"
               /\ reply.body.why # <<>>
               /\ result = NotCalled)
        /\ (reply.status = 500 => result = Threw)
        /\ (reply.status = 200 <=> HasResult)
        /\ (reply.status = 200 => reply.body = result)

(* a 200 reply whose body is an infeasibility result *)
C20_Witness ==
    /\ reply # None
    /\ reply.status = 200
    /\ ~reply.body.success
    /\ reply.body.error = "Cannot place operation"

(* a 400 reply to a body without settings *)
C20_WitnessInvalid ==
    /\ reply # None
    /\ reply.status = 400
    /\ "settings" \notin DOMAIN request

----------------------------------------------------------------------------
(* The operation one pass of the loop works on, read from what the pass
   leaves behind: the new assignment, or the operation a failure names *)

JustPlaced == Len(allAssignments') = Len(allAssignments) + 1

NewAssignment == allAssignments'[Len(allAssignments')]

NamesOperation ==
    /\ result = Running
    /\ result' # Running
    /\ ~result'.success
    /\ result'.error \in {"No eligible resources", "Cannot place operation",
                          "Horizon exceeded"}

(* positions in the pool (before the pass) of the operation worked on *)
WorkedOn ==
    IF JustPlaced
    THEN {i \in 1..Len(unscheduled) :
             /\ unscheduled[i].productId = NewAssignment.productId
             /\ unscheduled[i].stepIndex = NewAssignment.stepIndex}
    ELSE IF NamesOperation
    THEN {i \in 1..Len(unscheduled) :
             /\ unscheduled[i].productId = result'.why[1].product
             /\ unscheduled[i].stepIndex = result'.why[1].step}
    ELSE {}

(* positions of the pool's operations whose prior step, if any, is assigned *)
ReadyPositions ==
    {i \in 1..Len(unscheduled) :
        \/ unscheduled[i].stepIndex = 0
        \/ \E a \in Placed : /\ a.productId = unscheduled[i].productId
                             /\ a.stepIndex = unscheduled[i].stepIndex - 1}

(* due - earliest_start - (durations of this step and all later steps) *)
SlackAt(i) ==
    LET op == unscheduled[i]
        p == CHOOSE q \in Range(normalized.products) : q.id = op.productId
    IN op.productDue - op.earliestStart
       - SumSeq([k \in 1..(Len(p.route) - op.stepIndex) |->
                    p.route[op.stepIndex + k].duration_minutes])

KeyAt(i) == <<unscheduled[i].productDue, SlackAt(i), unscheduled[i].duration>>

LexLess(x, y) ==
    \/ x[1] < y[1]
    \/ x[1] = y[1] /\ x[2] < y[2]
    \/ x[1] = y[1] /\ x[2] = y[2] /\ x[3] < y[3]

(* C21: Priority selection. In every pass of the loop that selects an
   operation, the operation selected is a ready one whose key (due, slack,
   duration) is the least of the ready set in lexicographic order, and among
   the ready operations of that same key it is the first in pool order. *)
C21_PrioritySelection ==
    [][(JustPlaced \/ NamesOperation) =>
         /\ Cardinality(WorkedOn) = 1
         /\ \A i \in WorkedOn :
              /\ i \in ReadyPositions
              /\ \A j \in ReadyPositions :
                   /\ ~LexLess(KeyAt(j), KeyAt(i))
                   /\ KeyAt(j) = KeyAt(i) => i <= j]_vars

(* the first pass placed the first step of P1 although P2, of the same due
   time, is shorter: the slack decided *)
C21_Witness ==
    /\ Len(allAssignments) = 1
    /\ allAssignments[1].productId = "P1"
    /\ \E i \in 1..Len(unscheduled) :
         /\ unscheduled[i].productId = "P2"
         /\ unscheduled[i].productDue = productsMap("P1").due
         /\ unscheduled[i].duration
              < allAssignments[1].end - allAssignments[1].start

----------------------------------------------------------------------------
(* the accepted candidates of Placement Search for an operation: one per
   examined gap of positive length that admits changeover and duration *)
AcceptedCandidates(op) ==
    {[resource |-> g.resource,
      start |-> g.from + g.changeover,
      end |-> g.from + g.changeover + op.duration] :
        g \in {h \in ExaminedGaps(op) : Admits(h, op)}}

TardinessAt(end, op) == Max(0, end - op.productDue)

(* C22: Placement choice. The placement made for the selected operation is
   one of the accepted candidates, none of which has a smaller projected
   tardiness max(0, end - due), and none of those of equal tardiness has an
   earlier end; a pass ends with 'Cannot place operation' only when there is
   no accepted candidate, and returns a placement only when there is one. *)
C22_PlacementChoice ==
    [][\A i \in WorkedOn :
         LET op == unscheduled[i]
             candidates == AcceptedCandidates(op)
         IN /\ JustPlaced =>
                 /\ [resource |-> NewAssignment.resource,
                     start |-> NewAssignment.start,
                     end |-> NewAssignment.end] \in candidates
                 /\ \A c \in candidates :
                      /\ TardinessAt(NewAssignment.end, op) <= TardinessAt(c.end, op)
                      /\ TardinessAt(NewAssignment.end, op) = TardinessAt(c.end, op)
                           => NewAssignment.end <= c.end
            /\ (~JustPlaced /\ result'.error = "Cannot place operation")
                 => candidates = {}
            /\ (~JustPlaced /\ result'.error = "Horizon exceeded")
                 => candidates # {}]_vars

(* the first operation, a fill step that fits a window of R1, went to R2:
   R1 is examined first and had an accepted candidate, R2 had a better one *)
C22_Witness ==
    /\ Len(allAssignments) = 1
    /\ allAssignments[1].resource = "R2"
    /\ allAssignments[1].operationName = "fill"
    /\ \E w \in Range(ResourceById("R1").calendar) :
         w.end - w.start >= allAssignments[1].end - allAssignments[1].start

----------------------------------------------------------------------------
(* The operation the next pass of the loop would hand to Placement Search *)
NextOperation == selectNextOperation(unscheduled, assignments)

(* the assignments of a resource that occupy part of a calendar window *)
InWindow(rid, window) ==
    {a \in Range(resourceStates[rid].assignments) :
        a.start < window.end /\ a.end > window.start}

(* The changeover a gap of a resource's calendar window calls for: the matrix
   entry from the family of the assignment immediately preceding the gap, none
   when the operation would be the first assignment on the resource or the
   first in that window. prev is None or the assignment before the gap. *)
ChangeoverCalledFor(op, rid, window, prev) ==
    IF prev = None THEN 0
    ELSE IF \A a \in InWindow(rid, window) : a.start >= prev[1].end
              /\ prev[1] \notin InWindow(rid, window)
    THEN 0
    ELSE MatrixEntry(prev[1].productFamily, op.productFamily)

(* C23: Per-gap changeover. For the operation handed to Placement Search, the
   changeover added to the candidate start of every gap of positive length is
   the matrix entry 'prevFamily->opFamily' (0 when the key is absent) of the
   assignment immediately preceding the gap on the resource, and 0 when the
   operation would be the first assignment on the resource or the first
   assignment in that calendar window. *)
C23_PerGapChangeover ==
    (result = Running /\ NextOperation # None) =>
        LET op == WithPriorEnd(NextOperation[1], assignments)
            probes == AllProbes(op, getEligibleResources(op, normalized.resources),
                                resourceStates, normalized.changeoverMatrix)
        IN \A k \in 1..Len(probes) :
             LET g == probes[k]
                 sorted == resourceStates[g.resource].assignments
                 prev == IF g.i >= 1 THEN Some(sorted[g.i]) ELSE None
             IN g.gapEnd > g.gapStart =>
                  g.changeoverTime = ChangeoverCalledFor(op, g.resource, g.window, prev)

(* C23, first half only: the changeover of a gap is the matrix entry from the
   family of the assignment before the gap, 0 when the key is absent or
   when no assignment of the resource precedes the gap. *)
C23_ChangeoverFromPrecedingAssignment ==
    (result = Running /\ NextOperation # None) =>
        LET op == WithPriorEnd(NextOperation[1], assignments)
            probes == AllProbes(op, getEligibleResources(op, normalized.resources),
                                resourceStates, normalized.changeoverMatrix)
        IN \A k \in 1..Len(probes) :
             LET g == probes[k]
                 sorted == resourceStates[g.resource].assignments
             IN g.changeoverTime =
                  IF g.i >= 1
                  THEN MatrixEntry(sorted[g.i].productFamily, op.productFamily)
                  ELSE 0

----------------------------------------------------------------------------
(* A call of schedule() whose changeover matrix also has same-family keys:
   changeoverMatrixSchema accepts any record of non-negative numbers. *)

(* every key 'X->Y' of the two families, same-family keys included *)
FullMatrices ==
    [Families \X Families -> ChangeoverTimes]

(* one resource that fills, open from the start of the horizon *)
SingleResourceLists ==
    {<<[id |-> "R1", capabilities |-> <<"fill">>,
        calendar |-> <<<<Ts(0), Ts(e)>>>>]>> : e \in 1..(MaxTime + 1)}

MatrixInit ==
    /\ \E ps \in RawProductLists, rs \in SingleResourceLists, m \in FullMatrices :
           /\ horizon = MakeInput(rs, ps, m).horizon
           /\ normalized = normalizeInput(MakeInput(rs, ps, m))
    /\ unscheduled = buildOperationsList(normalized.products)
    /\ assignments = <<>>
    /\ allAssignments = <<>>
    /\ resourceStates =
           [rid \in ResourceIds |-> [lastFamily |-> None, assignments |-> <<>>]]
    /\ iteration = 0
    /\ result = IF Len(normalized.products) = 0 THEN EmptyResult ELSE Running
    /\ request = None
    /\ reply = None
    /\ previous = None
    /\ call = None

MatrixSpec == MatrixInit /\ [][Next]_vars

(* position of the new assignment among its resource's assignments *)
NewPosition ==
    CHOOSE k \in 1..Len(resourceStates'[NewAssignment.resource].assignments) :
        resourceStates'[NewAssignment.resource].assignments[k] = NewAssignment

(* the assignment directly before the new one on its resource, or None *)
NewPredecessor ==
    IF NewPosition > 1
    THEN Some(resourceStates'[NewAssignment.resource].assignments[NewPosition - 1])
    ELSE None

(* start of the gap the new assignment was placed in *)
NewGapStart(op) ==
    Max(op.earliestStart,
        IF NewPredecessor # None THEN NewPredecessor[1].end
        ELSE SetMax({w.start : w \in {v \in Range(ResourceById(NewAssignment.resource).calendar) :
                                          v.start <= NewAssignment.start}}))

(* C24: Changeover applies only between differing families. An operation
   placed directly after an assignment of the same family on the same
   resource starts at the start of its gap, whatever the changeover matrix
   holds; and the changeover minutes a placement adds to what utilization
   counts for the resource are the minutes the placement reserved between
   the start of the gap and the start of the operation. *)
C24_ChangeoverOnlyBetweenFamilies ==
    [][JustPlaced =>
         \A i \in WorkedOn :
           LET op == unscheduled[i]
               rid == NewAssignment.resource
           IN /\ (NewPredecessor # None
                   /\ NewPredecessor[1].productFamily = NewAssignment.productFamily)
                     => NewAssignment.start = NewGapStart(op)
              /\ ChangeoverMinutes(allAssignments', rid, normalized.changeoverMatrix)
                   - ChangeoverMinutes(allAssignments, rid, normalized.changeoverMatrix)
                 = NewAssignment.start - NewGapStart(op)]_vars

(* C24 for a matrix without same-family keys and an operation appended after
   the last assignment of its resource: the operation placed after an
   assignment of its own family starts at the start of its gap, and the
   minutes added to the utilization's changeover count are those reserved. *)
C24_AppendedWithoutSameFamilyKeys ==
    [][(/\ JustPlaced
        /\ \A f \in Families : MatrixEntry(f, f) = 0
        /\ NewPosition = Len(resourceStates'[NewAssignment.resource].assignments)) =>
         \A i \in WorkedOn :
           LET op == unscheduled[i]
               rid == NewAssignment.resource
           IN /\ (NewPredecessor # None
                   /\ NewPredecessor[1].productFamily = NewAssignment.productFamily)
                     => NewAssignment.start = NewGapStart(op)
              /\ ChangeoverMinutes(allAssignments', rid, normalized.changeoverMatrix)
                   - ChangeoverMinutes(allAssignments, rid, normalized.changeoverMatrix)
                 = NewAssignment.start - NewGapStart(op)]_vars

----------------------------------------------------------------------------
(* C25: Readiness ordering. Within each product the assignments are created
   in increasing step order, starting with step 0: an assignment of step
   k > 0 is created only after the assignment of step k - 1 of the same
   product; an operation of step > 0 that a failure names has its prior step
   assigned; and the first pass of the loop finds a ready operation, the
   step 0 operations being ready from the start. *)
C25_ReadinessOrdering ==
    /\ \A p \in DOMAIN assignments :
         \A k \in 1..Len(assignments[p]) : assignments[p][k].stepIndex = k - 1
    /\ \A j \in 1..Len(allAssignments) :
         allAssignments[j].stepIndex > 0 =>
           \E i \in 1..(j - 1) :
             /\ allAssignments[i].productId = allAssignments[j].productId
             /\ allAssignments[i].stepIndex = allAssignments[j].stepIndex - 1
    /\ (\/ FailedWith("No eligible resources")
        \/ FailedWith("Cannot place operation")
        \/ FailedWith("Horizon exceeded")) =>
         (result.why[1].step > 0 =>
            \E a \in Placed : /\ a.productId = result.why[1].product
                              /\ a.stepIndex = result.why[1].step - 1)
    /\ Len(allAssignments) = 0 => ~FailedWith("No ready operations available")

(* both steps of a two-step product are assigned, while another product's
   first step was placed between them or is still in the pool *)
C25_Witness ==
    /\ \E p \in DOMAIN assignments : Len(assignments[p]) = 2
    /\ Len(normalized.products) = 2
    /\ \/ Len(unscheduled) > 0
       \/ /\ Len(allAssignments) = 3
          /\ allAssignments[2].productId # allAssignments[1].productId

----------------------------------------------------------------------------
(* the number of operations of the run's pool at the start *)
PoolSize == Len(buildOperationsList(normalized.products))

(* while the run goes on, the passes made and the operations left add up to
   the pool's size; no run makes more passes than that *)
PassesAndPool ==
    /\ result = Running => iteration + Len(unscheduled) = PoolSize
    /\ iteration <= PoolSize
    /\ ~FailedWith("Scheduler stuck in infinite loop")
    /\ (result = Running /\ Len(unscheduled) = 0) => ENABLED Finish

(* a pass of the loop that does not end the run removes exactly one operation
   from the pool, the one it placed, and leaves the others in their order *)
EachPassRemovesOne ==
    (result = Running /\ result' = Running) =>
        /\ Len(unscheduled') = Len(unscheduled) - 1
        /\ JustPlaced
        /\ \A i \in WorkedOn :
             \A j \in 1..Len(unscheduled') :
               LET k == IF j < i THEN j ELSE j + 1
               IN /\ unscheduled'[j].productId = unscheduled[k].productId
                  /\ unscheduled'[j].stepIndex = unscheduled[k].stepIndex

(* C26: Termination. Every pass of the loop either ends the run with a result
   or removes exactly one operation from the pool; so for a pool of N
   operations the passes made and the operations left add up to N while the
   run goes on, no run makes more than N passes (the iteration cap is never
   hit), and the run that has emptied the pool ends with its result. *)
C26_Termination == [][EachPassRemovesOne]_vars /\ []PassesAndPool

(* a pool of three operations was emptied in three passes *)
C26_Witness ==
    /\ PoolSize = 3
    /\ iteration = 3
    /\ Len(unscheduled) = 0
    /\ Succeeded

----------------------------------------------------------------------------
(* product ids are unique in the input *)
UniqueProductIds ==
    \A i, j \in 1..Len(normalized.products) :
        normalized.products[i].id = normalized.products[j].id => i = j

(* C27: Precedence deadlock freedom. For an input with unique product ids,
   whenever the run goes on with a non-empty pool some operation of the pool
   is ready (its step is 0 or its prior step is assigned), and no run ends
   with 'No ready operations available'. *)
C27_NoPrecedenceDeadlock ==
    UniqueProductIds =>
        /\ (result = Running /\ Len(unscheduled) > 0) => ReadyPositions # {}
        /\ ~FailedWith("No ready operations available")

(* the run goes on with a pool that holds no first step: what is ready is
   ready because its prior step has been assigned *)
C27_Witness ==
    /\ UniqueProductIds
    /\ result = Running
    /\ Len(unscheduled) > 0
    /\ \A i \in 1..Len(unscheduled) : unscheduled[i].stepIndex > 0

----------------------------------------------------------------------------
IsPrefix(s, t) == Len(s) <= Len(t) /\ SubSeq(t, 1, Len(s)) = s

Failed == result # Running /\ ~result.success

(* one step of a run: assignments are only added, never changed or removed,
   and nothing happens after the run has ended *)
OnlyGrows ==
    /\ IsPrefix(allAssignments, allAssignments')
    /\ \A p \in DOMAIN assignments :
         p \in DOMAIN assignments' /\ IsPrefix(assignments[p], assignments'[p])
    /\ \A rid \in ResourceIds :
         Range(resourceStates[rid].assignments)
           \subseteq Range(resourceStates'[rid].assignments)
    /\ result # Running => UNCHANGED vars

(* a failure carries error and why and nothing of the schedule; the
   assignments made so far stay as they were in the engine's state *)
FailureCarriesNoSchedule ==
    Failed =>
        /\ DOMAIN result = {"success", "error", "why"}
        /\ ~ENABLED Iterate
        /\ ~ENABLED Finish

(* C28: No backtracking. Once an assignment is created its resource, start
   and end never change and it is never removed: the assignments only grow
   during a run. After any failure no further operation is selected or
   placed, and the result carries only error and why. *)
C28_NoBacktracking == [][OnlyGrows]_vars /\ []FailureCarriesNoSchedule

(* a run that failed after it had made an assignment *)
C28_Witness ==
    /\ Failed
    /\ Len(allAssignments) > 0
    /\ result.error \in {"Cannot place operation", "No eligible resources",
                         "Time limit exceeded"}

----------------------------------------------------------------------------
(* the assignment of a product's step, or None *)
AssignmentOf(productId, stepIndex) ==
    LET hits == {a \in Placed : a.productId = productId /\ a.stepIndex = stepIndex}
    IN IF hits = {} THEN None ELSE Some(CHOOSE a \in hits : TRUE)

(* earliest_start of every operation of the pool: 0 for a first step and for
   a step whose prior step is not placed yet, the prior step's end otherwise *)
EarliestStartTracksPriorEnd ==
    \A i \in 1..Len(unscheduled) :
        LET op == unscheduled[i]
            prior == AssignmentOf(op.productId, op.stepIndex - 1)
        IN op.earliestStart = IF prior = None THEN 0 ELSE prior[1].end

(* earliest_start of an operation that stays in the pool never decreases, and
   a step > 0 that is placed starts no earlier than the earliest_start it
   had, which is the end of its prior step *)
EarliestStartOnlyRises ==
    /\ \A i \in 1..Len(unscheduled), j \in 1..Len(unscheduled') :
         (/\ unscheduled[i].productId = unscheduled'[j].productId
          /\ unscheduled[i].stepIndex = unscheduled'[j].stepIndex)
           => unscheduled'[j].earliestStart >= unscheduled[i].earliestStart
    /\ JustPlaced =>
         \A i \in WorkedOn :
           /\ NewAssignment.start >= unscheduled[i].earliestStart
           /\ NewAssignment.stepIndex > 0 =>
                /\ AssignmentOf(NewAssignment.productId,
                                NewAssignment.stepIndex - 1) # None
                /\ unscheduled[i].earliestStart =
                     AssignmentOf(NewAssignment.productId,
                                  NewAssignment.stepIndex - 1)[1].end

(* C29: earliest_start tracking. Every operation starts with earliest_start
   0; when step i of a product is placed, earliest_start of step i + 1 is
   raised to that assignment's end; earliest_start never decreases; and an
   operation of step > 0 handed to Placement Search has the end of its prior
   step's assignment as earliest_start, so it never starts before it. *)
C29_EarliestStartTracking ==
    [][EarliestStartOnlyRises]_vars /\ []EarliestStartTracksPriorEnd

(* a second step waits in the pool with its earliest_start raised to the end
   of the first step, which is later than the first minute *)
C29_Witness ==
    \E i \in 1..Len(unscheduled) :
        /\ unscheduled[i].stepIndex = 1
        /\ unscheduled[i].earliestStart > 1
        /\ AssignmentOf(unscheduled[i].productId, 0) # None

----------------------------------------------------------------------------
(* C30: last_family. In every state of a run, each resource's last_family is
   the family of the chronologically last (greatest start) assignment on
   that resource, and null while the resource has no assignment. *)
C30_LastFamily ==
    \A rid \in ResourceIds :
        LET mine == {a \in Placed : a.resource = rid}
        IN resourceStates[rid].lastFamily =
             IF mine = {} THEN None
             ELSE Some((CHOOSE a \in mine :
                          \A b \in mine : b.start <= a.start).productFamily)

(* C30 for the assignment placed last: each resource's last_family is the
   family of the assignment most recently placed on it, null while it has
   none. *)
C30_LastFamilyOfLatestPlacement ==
    \A rid \in ResourceIds :
        LET mine == ResourceAssignments(allAssignments, rid)
        IN resourceStates[rid].lastFamily =
             IF mine = <<>> THEN None
             ELSE Some(mine[Len(mine)].productFamily)

----------------------------------------------------------------------------
IsSortedByStart(s) == \A i \in 1..(Len(s) - 1) : s[i].start <= s[i + 1].start

(* the number of times x occurs in the sequence s *)
Occurrences(s, x) == Cardinality({i \in 1..Len(s) : s[i] = x})

(* each resource's list is sorted by start and holds exactly the assignments
   made on that resource *)
ListsSortedAndExact ==
    \A rid \in ResourceIds :
        LET list == resourceStates[rid].assignments
            mine == ResourceAssignments(allAssignments, rid)
        IN /\ IsSortedByStart(list)
           /\ Len(list) = Len(mine)
           /\ \A a \in Range(list) \cup Range(mine) :
                Occurrences(list, a) = Occurrences(mine, a)

(* a placement changes the state of the resource it chose and no other *)
OnlyChosenResourceChanges ==
    /\ JustPlaced =>
         \A rid \in ResourceIds :
           rid # NewAssignment.resource => resourceStates'[rid] = resourceStates[rid]
    /\ ~JustPlaced => resourceStates' = resourceStates

(* C31: Resource state ordering. After every placement each resource's
   assignment list is sorted by start ascending and contains exactly the
   assignments whose resource is that resource; a placement changes the state
   of the chosen resource only and leaves every other resource's list
   unchanged. *)
C31_ResourceStateOrdering ==
    [][OnlyChosenResourceChanges]_vars /\ []ListsSortedAndExact

(* a resource holds two assignments of which the later placed is the earlier
   in time, while the other resource holds an assignment too *)
C31_Witness ==
    \E rid \in ResourceIds :
        /\ Len(resourceStates[rid].assignments) = 2
        /\ resourceStates[rid].assignments # ResourceAssignments(allAssignments, rid)
        /\ \E other \in ResourceIds \ {rid} :
             Len(resourceStates[other].assignments) > 0

----------------------------------------------------------------------------
(* The final check of schedule() on its own: the code after the loop (lines
   497-525) applied to a complete set of assignments, whatever the loop that
   built it. One behaviour is one application of the check. *)

(* every way of assigning the operations of a pool, in pool order: each on
   one of the resources, at a start within the horizon *)
RECURSIVE CompleteAssignmentLists(_)
CompleteAssignmentLists(pool) ==
    IF pool = <<>> THEN {<<>>}
    ELSE {<<MakeAssignment(Head(pool),
                           [resource |-> rid, start |-> s,
                            end |-> s + Head(pool).duration])>> \o rest :
            rid \in ResourceIds, s \in 0..(MaxTime - 1),
            rest \in CompleteAssignmentLists(Tail(pool))}

(* the resource states and the per-product lists the loop keeps for a list of
   assignments made in that order *)
RECURSIVE StatesAfter(_, _)
StatesAfter(states, list) ==
    IF list = <<>> THEN states
    ELSE StatesAfter([states EXCEPT ![Head(list).resource] =
                         updateResourceState(@, Head(list))], Tail(list))

RECURSIVE AssignmentsAfter(_, _)
AssignmentsAfter(assigned, list) ==
    IF list = <<>> THEN assigned
    ELSE AssignmentsAfter(PushAssignment(assigned, Head(list)), Tail(list))

(* one or two products of family A, due at the end of the horizon *)
FinalCheckProductLists ==
    {ps \in RawProductLists :
        /\ Len(ps) > 0
        /\ \A i \in 1..Len(ps) : ps[i].family = "A" /\ ps[i].due = Ts(MaxTime)}

FinalCheckInit ==
    /\ \E ps \in FinalCheckProductLists :
         \E rs \in HttpResourceLists, m \in MatricesFor(ps) :
           /\ horizon = MakeInput(rs, ps, m).horizon
           /\ normalized = normalizeInput(MakeInput(rs, ps, m))
    /\ unscheduled = <<>>
    /\ allAssignments \in
           CompleteAssignmentLists(buildOperationsList(normalized.products))
    /\ assignments = AssignmentsAfter(<<>>, allAssignments)
    /\ resourceStates =
           StatesAfter([rid \in ResourceIds |->
                           [lastFamily |-> None, assignments |-> <<>>]],
                       allAssignments)
    /\ iteration = Len(allAssignments)
    /\ result = Running
    /\ request = None
    /\ reply = None
    /\ previous = None
    /\ call = None

FinalCheckNext == Finish

FinalCheckSpec == FinalCheckInit /\ [][FinalCheckNext]_vars

(* two assignments on one resource overlap *)
SomeOverlap ==
    \E i, j \in 1..Len(allAssignments) :
        /\ i # j
        /\ allAssignments[i].resource = allAssignments[j].resource
        /\ allAssignments[i].start < allAssignments[j].end
        /\ allAssignments[j].start < allAssignments[i].end

(* a step of a product starts before the product's prior step has ended *)
SomePrecedenceViolation ==
    \E i, j \in 1..Len(allAssignments) :
        /\ allAssignments[i].productId = allAssignments[j].productId
        /\ allAssignments[j].stepIndex = allAssignments[i].stepIndex + 1
        /\ allAssignments[j].start < allAssignments[i].end

(* the one 'Validation failed' error schedule() has *)
ValidationFailed == FailedWith("Validation failed: overlap detected")

(* C32: Final consistency check. The check applied to a complete assignment
   set returns success only when no two assignments of a resource overlap and
   every step starts at or after the end of its product's prior step; a set
   violating either is reported as a 'Validation failed' error, never as
   success. *)
C32_FinalCheck ==
    result # Running =>
        /\ (SomeOverlap \/ SomePrecedenceViolation) => ValidationFailed
        /\ result.success => ~SomeOverlap /\ ~SomePrecedenceViolation

(* C32 for the part of the check the code has: a set with two overlapping
   assignments on a resource is reported as 'Validation failed: overlap
   detected', and a set without overlap is returned as success. *)
C32_FinalCheckOverlapOnly ==
    result # Running =>
        /\ SomeOverlap => FailedWith("Validation failed: overlap detected")
        /\ ~SomeOverlap => result.success

----------------------------------------------------------------------------
(* the pass of the loop that finds the deadline elapsed *)
DeadlineStep == result = Running /\ result' = TimeLimitResult

(* the deadline ends a run only while operations remain, and that pass
   neither counts as an iteration nor selects or places anything *)
DeadlineOnlyAtTopOfPass ==
    DeadlineStep =>
        /\ Len(unscheduled) > 0
        /\ UNCHANGED <<unscheduled, assignments, allAssignments,
                       resourceStates, iteration>>

(* once the pool is empty only the final check is left, and it does not
   consult the deadline *)
EmptyPoolIsNotRejected ==
    /\ (result = Running /\ Len(unscheduled) = 0) =>
           /\ ~ENABLED Iterate
           /\ ENABLED Finish
           /\ ~ENABLED (Finish /\ DeadlineStep)

(* C33: Deadline check. The wall-clock deadline is consulted only at the top
   of a pass of the loop while operations remain unplaced, before the
   iteration counter is touched and before any selection; when it has
   elapsed the run ends with 'Time limit exceeded' and nothing further is
   placed; a run whose pool is already empty is never rejected by the
   deadline. *)
C33_DeadlineCheck ==
    [][DeadlineOnlyAtTopOfPass]_vars /\ []EmptyPoolIsNotRejected

(* the deadline ended a run that had made an assignment with work remaining *)
C33_Witness ==
    /\ result = TimeLimitResult
    /\ Len(allAssignments) > 0
    /\ Len(unscheduled) > 0
    /\ iteration = Len(allAssignments)

----------------------------------------------------------------------------
(* A call of schedule() on a resource with any raw calendar: windows given in
   any order, overlapping, adjacent, empty or inverted, reaching before the
   start or beyond the end of the horizon, with timestamps on the half
   minute. request keeps the input of the call. *)

RawTimestamps == {k * HalfMinute : k \in (0 - 1)..(2 * MaxTime + 1)}

AnyRawWindows == {<<s, e>> : s \in RawTimestamps, e \in RawTimestamps}

(* one window, or two windows in any order *)
AnyRawCalendars ==
    {<<w>> : w \in AnyRawWindows} \cup
    {<<w1, w2>> : w1 \in AnyRawWindows, w2 \in AnyRawWindows}

(* one product of one or two fill steps of one minute *)
CalendarProductLists ==
    {<<[id |-> "P1", family |-> "A", due |-> Ts(MaxTime), route |-> r]>> :
        r \in {<<[capability |-> "fill", duration_minutes |-> 1]>>,
               <<[capability |-> "fill", duration_minutes |-> 1],
                 [capability |-> "fill", duration_minutes |-> 1]>>}}

CalendarInputs ==
    {MakeInput(<<[id |-> "R1", capabilities |-> <<"fill">>, calendar |-> c]>>,
               ps, (<<"A", "B">> :> 0) @@ (<<"B", "A">> :> 0)) :
        c \in AnyRawCalendars, ps \in CalendarProductLists}

CalendarInit ==
    /\ \E input \in CalendarInputs :
           /\ request = Some(input)
           /\ horizon = input.horizon
           /\ normalized = normalizeInput(input)
    /\ unscheduled = buildOperationsList(normalized.products)
    /\ assignments = <<>>
    /\ allAssignments = <<>>
    /\ resourceStates =
           [rid \in ResourceIds |-> [lastFamily |-> None, assignments |-> <<>>]]
    /\ iteration = 0
    /\ result = IF Len(normalized.products) = 0 THEN EmptyResult ELSE Running
    /\ reply = None
    /\ previous = None
    /\ call = None

CalendarSpec == CalendarInit /\ [][Next]_vars

(* the raw windows of resource i as minute offsets from the horizon's start *)
RawOffsets(i) ==
    LET raw == request[1].resources[i].calendar
    IN [k \in 1..Len(raw) |->
           [start |-> (raw[k][1] - request[1].horizon.start) \div MsPerMinute,
            end   |-> (raw[k][2] - request[1].horizon.start) \div MsPerMinute]]

(* the minutes of the horizon that a list of windows covers *)
MinutesIn(list) ==
    {t \in 0..(HorizonLength - 1) :
        \E k \in 1..Len(list) : list[k].start <= t /\ t < list[k].end}

NormalizedCalendarOf(i) ==
    LET c == normalized.resources[i].calendar
    IN /\ \A k \in 1..Len(c) :
            /\ c[k].start < c[k].end
            /\ 0 <= c[k].start
            /\ c[k].end <= HorizonLength
       /\ \A k \in 1..(Len(c) - 1) : c[k].end < c[k + 1].start
       /\ MinutesIn(c) = MinutesIn(RawOffsets(i))

(* C34: Calendar normalization. For every resource and every list of raw
   windows, the normalized calendar is sorted by start, its windows are
   pairwise disjoint and non-adjacent, each has positive length and lies
   within [0, horizon_length], and its union equals the union of the raw
   windows intersected with [0, horizon_length]; the calendar is never
   modified during scheduling. *)
C34_CalendarNormalization ==
    /\ [](\A i \in 1..Len(normalized.resources) : NormalizedCalendarOf(i))
    /\ [][normalized' = normalized]_vars

(* the run succeeded on a resource whose two raw windows, given latest first,
   the later reaching beyond the horizon, were merged into one window *)
C34_Witness ==
    /\ Succeeded
    /\ Len(request[1].resources[1].calendar) = 2
    /\ request[1].resources[1].calendar[1][1] > request[1].resources[1].calendar[2][1]
    /\ request[1].resources[1].calendar[1][2] > request[1].horizon.end
    /\ Len(normalized.resources[1].calendar) = 1
    /\ Len(allAssignments) = 2

----------------------------------------------------------------------------
(* Two calls of schedule() on the same input whose passes through the loop
   are interleaved in any order. Everything a call works on is allocated
   inside schedule() (lines 342-375): the engine's variables hold the locals
   of the call that is running, previous holds the locals of the other call,
   and Switch hands the processor from one call to the other. *)

(* the local variables of the call that is running *)
RunLocals ==
    [horizon |-> horizon, normalized |-> normalized,
     unscheduled |-> unscheduled, assignments |-> assignments,
     allAssignments |-> allAssignments, resourceStates |-> resourceStates,
     iteration |-> iteration, result |-> result]

(* resource states kept in one Map that both calls use *)
SharedResourceStates(run) == resourceStates

(* the resource states a call finds when it goes on: its own Map *)
OwnResourceStates(run) == run.resourceStates

ConcurrentInit ==
    /\ \E ps \in RawProductLists :
         \E rs \in HttpResourceLists, m \in MatricesFor(ps) :
           /\ horizon = MakeInput(rs, ps, m).horizon
           /\ normalized = normalizeInput(MakeInput(rs, ps, m))
    /\ unscheduled = buildOperationsList(normalized.products)
    /\ assignments = <<>>
    /\ allAssignments = <<>>
    /\ resourceStates =
           [rid \in ResourceIds |-> [lastFamily |-> None, assignments |-> <<>>]]
    /\ iteration = 0
    /\ result = IF Len(normalized.products) = 0 THEN EmptyResult ELSE Running
    /\ request = None
    /\ reply = None
    /\ previous = Some(RunLocals)
    /\ call = None

Switch ==
    /\ previous # None
    /\ previous' = Some(RunLocals)
    /\ horizon' = previous[1].horizon
    /\ normalized' = previous[1].normalized
    /\ unscheduled' = previous[1].unscheduled
    /\ assignments' = previous[1].assignments
    /\ allAssignments' = previous[1].allAssignments
    /\ resourceStates' = OwnResourceStates(previous[1])
    /\ iteration' = previous[1].iteration
    /\ result' = previous[1].result
    /\ UNCHANGED <<request, reply, call>>

ConcurrentNext == Iterate \/ Finish \/ Switch

ConcurrentSpec == ConcurrentInit /\ [][ConcurrentNext]_vars

(* a step of the running call leaves the other call's locals as they are,
   and a call goes on with exactly the locals it had when it was left *)
OtherRunUntouched ==
    \/ previous' = previous
    \/ /\ previous' = Some(RunLocals)
       /\ RunLocals' = previous[1]

(* both calls work on the input as given, and two calls that have ended
   without the deadline firing have the same result, the one of a call
   running alone *)
SameResultAsAlone ==
    /\ normalized = previous[1].normalized
    /\ horizon = previous[1].horizon
    /\ (/\ result # Running
        /\ previous[1].result # Running
        /\ ~TimeLimitExceeded(result)
        /\ ~TimeLimitExceeded(previous[1].result))
         => result = previous[1].result

(* C35: Run independence. Two scheduling runs whose loop passes are
   interleaved in any order share no mutable state: neither modifies the
   other's input, resource states, pool or assignments, and each returns the
   result it returns when run alone. *)
C35_RunIndependence ==
    [][OtherRunUntouched]_vars /\ []SameResultAsAlone

(* both calls are under way: each has placed its first operation and has
   more to place *)
C35_Witness ==
    /\ result = Running
    /\ previous[1].result = Running
    /\ Len(allAssignments) = 1
    /\ Len(previous[1].allAssignments) = 1
    /\ Len(unscheduled) > 0
    /\ Len(previous[1].unscheduled) > 0

----------------------------------------------------------------------------
(* A call of schedule() on products with an operation longer than the
   horizon. *)

LongDurations == {1, MaxTime + 1}

LongRouteSteps == [capability : {"fill"}, duration_minutes : LongDurations]

LongRoutes ==
    {<<o>> : o \in LongRouteSteps} \cup
    {<<o1, o2>> : o1 \in LongRouteSteps, o2 \in LongRouteSteps}

LongProductLists ==
    {<<[id |-> "P1", family |-> "A", due |-> d1, route |-> r1]>> :
        d1 \in DueTimes, r1 \in LongRoutes} \cup
    {<<[id |-> "P1", family |-> "A", due |-> d1, route |-> r1],
       [id |-> "P2", family |-> "B", due |-> d2, route |-> <<o2>>]>> :
        d1 \in DueTimes, r1 \in LongRoutes, d2 \in DueTimes, o2 \in LongRouteSteps}

LongInit ==
    /\ \E ps \in LongProductLists :
         \E rs \in HttpResourceLists, m \in RawMatrices :
           /\ horizon = MakeInput(rs, ps, m).horizon
           /\ normalized = normalizeInput(MakeInput(rs, ps, m))
    /\ unscheduled = buildOperationsList(normalized.products)
    /\ assignments = <<>>
    /\ allAssignments = <<>>
    /\ resourceStates =
           [rid \in ResourceIds |-> [lastFamily |-> None, assignments |-> <<>>]]
    /\ iteration = 0
    /\ result = IF Len(normalized.products) = 0 THEN EmptyResult ELSE Running
    /\ request = None
    /\ reply = None
    /\ previous = None
    /\ call = None

LongSpec == LongInit /\ [][Next]_vars

(* C36: 'Horizon exceeded' is unreachable. Every placement ends at or before
   horizon_length, no run ends with 'Horizon exceeded', and a pass working on
   an operation some resource is capable of that cannot end within the
   horizon (its duration, from its earliest start, reaches beyond
   horizon_length) ends the run with 'Cannot place operation'. *)
C36_HorizonExceededUnreachable ==
    /\ [](/\ ~FailedWith("Horizon exceeded")
          /\ \A a \in Placed : a.end <= HorizonLength)
    /\ [][\A i \in WorkedOn :
            (/\ unscheduled[i].earliestStart + unscheduled[i].duration > HorizonLength
             /\ ~NoResourceFor(unscheduled[i]))
              => (~JustPlaced /\ result'.error = "Cannot place operation")]_vars

(* a run ended with 'Cannot place operation' on a first step that is longer
   than the horizon, on a resource whose raw window reaches beyond the
   horizon's end *)
C36_Witness ==
    /\ FailedWith("Cannot place operation")
    /\ result.why[1].step = 0
    /\ FailedOperation.duration > HorizonLength
    /\ FailedOperation.earliestStart = 0

----------------------------------------------------------------------------
(* C37: The iteration cap is unreachable. With maxIterations = 5 * N for a
   pool of N operations, while the pool is non-empty the iteration counter
   the cap's test reads is at most N - 1 and never exceeds maxIterations,
   and no run ends with 'Scheduler stuck in infinite loop'. *)
C37_IterationCapUnreachable ==
    /\ (result = Running /\ Len(unscheduled) > 0)
         => (iteration <= PoolSize - 1 /\ iteration <= maxIterations)
    /\ ~FailedWith("Scheduler stuck in infinite loop")

(* a run on a pool of three operations stands before its last pass *)
C37_Witness ==
    /\ PoolSize = 3
    /\ iteration = PoolSize - 1
    /\ Len(unscheduled) = 1
    /\ result = Running

----------------------------------------------------------------------------
(* position, in the order Placement Search visits the resources, of the first
   resource with the given id *)
FirstVisit(rid) ==
    SetMin({r \in 1..Len(normalized.resources) : normalized.resources[r].id = rid})

(* C38: Earliest end. The placement returned for the selected operation is
   an accepted candidate whose end is the minimum over the accepted
   candidates of all eligible resources, windows and gaps, so that no
   candidate of a later end is ever chosen for its tardiness; among the
   candidates of that minimum end it is the one examined first, that of the
   resource listed first. *)
C38_EarliestEndFirstExamined ==
    [][\A i \in WorkedOn :
         LET op == unscheduled[i]
             candidates == AcceptedCandidates(op)
         IN JustPlaced =>
              /\ \E c \in candidates :
                   /\ c.resource = NewAssignment.resource
                   /\ c.start = NewAssignment.start
                   /\ c.end = NewAssignment.end
              /\ \A c \in candidates :
                   /\ NewAssignment.end <= c.end
                   /\ c.end = NewAssignment.end
                        => FirstVisit(NewAssignment.resource) <= FirstVisit(c.resource)]_vars

(* the first operation went to R1 although R2, listed after it, is capable
   of it and has a window that admits it with the same end *)
C38_Witness ==
    /\ Len(allAssignments) = 1
    /\ allAssignments[1].resource = "R1"
    /\ Len(normalized.resources) = 2
    /\ normalized.resources[2].id = "R2"
    /\ allAssignments[1].operationName \in normalized.resources[2].capabilities
    /\ \E w \in Range(normalized.resources[2].calendar) :
         /\ w.start <= allAssignments[1].start
         /\ allAssignments[1].end <= w.end
         /\ allAssignments[1].start = 0

----------------------------------------------------------------------------
(* C39: Output order. The assignments list of every success result is
   ordered by start time ascending, whatever the order in which the
   operations were placed: it holds the placed assignments, each once, and
   no entry starts after a later entry. *)
C39_OutputOrderedByStart ==
    Succeeded =>
        /\ Len(result.assignments) = Len(allAssignments)
        /\ \A i, j \in 1..Len(result.assignments) :
             i < j => result.assignments[i].start <= result.assignments[j].start
        /\ \A a \in Placed :
             Cardinality({i \in 1..Len(result.assignments) :
                 /\ result.assignments[i].product = a.productId
                 /\ result.assignments[i].operation = a.operationName
                 /\ result.assignments[i].resource = a.resource
                 /\ result.assignments[i].start
                      = formatIsoOffset(a.start, horizon.start)}) >= 1

(* a success whose operations were not placed in the order of their starts *)
C39_Witness ==
    /\ Succeeded
    /\ \E i, j \in 1..Len(allAssignments) :
         i < j /\ allAssignments[i].start > allAssignments[j].start

====
